---- MODULE Spec2Model ----
(***************************************************************************)
(* Verification model of elkodon: the lock-free SPSC index queues and     *)
(* their guards, the reference counter of the dynamic config, the file     *)
(* based static storage, the service lifecycle built on them, and the      *)
(* ports: notifier and listener, publisher and subscriber.                 *)
(*                                                                         *)
(* Every atomic load, store and compare_exchange and every access of a     *)
(* queue cell is one step of its thread; threads interleave freely.  A     *)
(* cell that is read while the other thread is about to write it is a data *)
(* race: the read may return any value.                                    *)
(***************************************************************************)
EXTENDS Integers, Sequences, FiniteSets, TLC

\* ------------------------------------------------------------------ bounds

\* capacity of the queues under test
QueueCapacity == 2
\* number of push calls of the producer (the k-th push carries the value k)
MaxPushes == 5
\* number of processes that use one service: the creator and the openers
NumProcesses == 3
\* processes that create, open and drop the static storage of one name
NumStorageUsers == 2
\* processes that create, open and drop the service of one name
NumServiceUsers == 2
\* retries of a service open that meets a service being set up or torn down
MaxRetries == 1
\* length of the content passed to create, in bytes
ContentLen == 2
\* listeners that join the event service, one after the other
NumListeners == 2
\* max_listeners of the event service: slots of the listener registry
MaxListeners == 2
\* notifiers of the event service
NumNotifiers == 2
\* notify calls of all notifiers together
MaxNotifies == 2
\* publishers that join the publish-subscribe service, one after the other,
\* and max_publishers, the slots of the publisher registry
NumPublishers == 2
\* send calls of all publishers together
MaxSends == 3
\* subscriber_max_buffer_size of the publish-subscribe service
subscriber_max_buffer_size == 1
\* subscriber_max_borrowed_samples of the publish-subscribe service
subscriber_max_borrowed_samples == 1
\* buckets of the pool allocator under test
NumBuckets == 3
\* threads that allocate from and deallocate to one pool allocator
NumAllocatorThreads == 2
\* max_subscribers of the publish-subscribe service: slots of the subscriber
\* registry
max_subscribers == 2
\* greatest max_notifiers and max_listeners an event service is created or
\* opened with
MaxRequested == 3
\* entries of the file reference set under test (MAX_NUMBER_OF_ENTRIES of
\* shared_memory_directory/mod.rs is 512)
MAX_NUMBER_OF_ENTRIES == 3
\* threads that create, open, remove and drop files of one directory
NumFileThreads == 2
\* names the files are created with
NumFileNames == 2
\* insert calls of all threads together
MaxInserts == 4
\* threads that call set_value and get of one lazy singleton
NumSingletonThreads == 3
\* threads that allocate from and deallocate to one one-chunk allocator
NumChunkThreads == 2

\* ------------------------------------------------------ program constants

\* u64::MAX; the counter is modelled with this narrower range: no run counts
\* up to the sentinel (the holders are at most the processes) or down to 0
U64_MAX == 65535

VARIABLES
    iq,     \* the plain index queue, its producer and consumer threads
    soq,    \* the safely overflowing index queue, its producer and consumer
    rc,     \* the dynamic config's reference counter and the processes using it
    ss,     \* the file of one static storage name and the processes using it
    svc,    \* the static file and dynamic segment of one service name and its users
    gd,     \* the Producer and Consumer guards of one SPSC queue
    ev,     \* the listeners and notifiers of one event service
    ps,     \* the publishers and the subscriber of one publish-subscribe service
    pa,     \* one pool allocator and the threads that allocate from it
    sc,     \* the static config of one event service and the calls that open it
    fs,     \* the file reference set of one directory and the threads using it
    ls,     \* one lazy singleton and the threads that set and get its value
    oc      \* one one-chunk allocator and the threads that allocate from it

vars == <<iq, soq, rc, ss, svc, gd, ev, ps, pa, sc, fs, ls, oc>>

\* value a torn read may produce besides the pushed values (cells start as 0)
Values == 0..MaxPushes

\* TRUE iff s is a prefix of t
IsPrefix(s, t) ==
    /\ Len(s) <= Len(t)
    /\ \A i \in 1..Len(s) : s[i] = t[i]

\* ---------------------------------------------------------- IndexQueue

\* index_queue.rs: at(position) = data_ptr.add(position % capacity)
IQ_at(position) == position % QueueCapacity

IQ_IsFull_OffByOne(write_position, read_position) ==
    write_position = read_position + QueueCapacity + 1

\* push: is_full = write_position == read_position + capacity
IQ_IsFull(write_position, read_position) ==
    write_position = read_position + QueueCapacity

\* len: write_position - read_position of acquire_read_and_write_position
IQ_len(write_position, read_position) == write_position - read_position

IQ_IsEmpty_OneLeft(write_position, read_position) ==
    read_position + 1 = write_position

\* pop: is_empty = read_position == write_position
IQ_IsEmpty(write_position, read_position) ==
    read_position = write_position

\* IndexQueue::new: cells zeroed, both cursors 0; both threads idle
IQ_New ==
    [ data           |-> [i \in 0..(QueueCapacity - 1) |-> 0],
      write_position |-> 0,
      read_position  |-> 0,
      ppc            |-> "idle",     \* producer: position in push
      p_value        |-> 0,          \* push's argument
      p_write_position |-> 0,        \* push's local write_position
      cpc            |-> "idle",     \* consumer: position in pop
      c_read_position |-> 0,         \* pop's local read_position
      c_value        |-> 0,          \* pop's local value
      calls          |-> 0,          \* push calls started
      last_push      |-> "none",     \* result of the last finished push
      last_pop       |-> "none",     \* result of the last finished pop
      pushed         |-> <<>>,       \* values whose push returned true
      popped         |-> <<>> ]      \* values returned by pop as Some(..)

\* push, line 272: let write_position = self.write_position.load(Relaxed)
IQ_PushLoadWritePosition ==
    /\ iq.ppc = "idle"
    /\ iq.calls < MaxPushes
    /\ iq' = [iq EXCEPT !.ppc = "load_read_position",
                        !.calls = @ + 1,
                        !.p_value = iq.calls + 1,
                        !.p_write_position = iq.write_position]

\* push, lines 273-278: load read_position, return false when full
IQ_PushLoadReadPosition ==
    /\ iq.ppc = "load_read_position"
    /\ IF IQ_IsFull(iq.p_write_position, iq.read_position)
       THEN iq' = [iq EXCEPT !.ppc = "idle", !.last_push = "false"]
       ELSE iq' = [iq EXCEPT !.ppc = "write"]

\* push, line 280: self.at(write_position).write(value)
IQ_PushWrite ==
    /\ iq.ppc = "write"
    /\ iq' = [iq EXCEPT !.ppc = "store",
                        !.data[IQ_at(iq.p_write_position)] = iq.p_value]

\* push, lines 284-287: write_position.store(write_position + 1, Release); true
IQ_PushStore ==
    /\ iq.ppc = "store"
    /\ iq' = [iq EXCEPT !.ppc = "idle",
                        !.write_position = iq.p_write_position + 1,
                        !.last_push = "true",
                        !.pushed = Append(@, iq.p_value)]

\* pop, line 296: let read_position = self.read_position.load(Relaxed)
IQ_PopLoadReadPosition ==
    /\ iq.cpc = "idle"
    /\ iq' = [iq EXCEPT !.cpc = "load_write_position",
                        !.c_read_position = iq.read_position]

\* pop, lines 300-304: load write_position (Acquire), return None when empty
IQ_PopLoadWritePosition ==
    /\ iq.cpc = "load_write_position"
    /\ IF IQ_IsEmpty(iq.write_position, iq.c_read_position)
       THEN iq' = [iq EXCEPT !.cpc = "idle", !.last_pop = "None"]
       ELSE iq' = [iq EXCEPT !.cpc = "read"]

\* the producer's next step writes the cell of this position
IQ_WriteRaces(position) ==
    /\ iq.ppc = "write"
    /\ IQ_at(iq.p_write_position) = IQ_at(position)

\* pop, line 306: let value = *self.at(read_position)
IQ_PopRead ==
    /\ iq.cpc = "read"
    /\ \E v \in Values :
        /\ IQ_WriteRaces(iq.c_read_position) \/ v = iq.data[IQ_at(iq.c_read_position)]
        /\ iq' = [iq EXCEPT !.cpc = "store", !.c_value = v]

\* pop, lines 307-310: read_position.store(read_position + 1, Relaxed); Some(value)
IQ_PopStore ==
    /\ iq.cpc = "store"
    /\ iq' = [iq EXCEPT !.cpc = "idle",
                        !.read_position = iq.c_read_position + 1,
                        !.last_pop = "Some",
                        !.popped = Append(@, iq.c_value)]

\* ------------------------------------------- SafelyOverflowingIndexQueue

SOQ_at_WithoutExtraCell(position) == position % QueueCapacity

\* safely_overflowing_index_queue.rs: at(position) = position % (capacity + 1)
SOQ_at(position) == position % (QueueCapacity + 1)

\* push: is_full = write_position == read_position + capacity
SOQ_IsFull(write_position, read_position) ==
    write_position = read_position + QueueCapacity

SOQ_PopCompareExchange_PlainStore(current, expected) == TRUE

SOQ_PopCompareExchange_NeverOk(current, expected) == FALSE

\* pop: read_position.compare_exchange(read_position, read_position + 1)
\* succeeds iff the cursor still holds the value pop read
SOQ_PopCompareExchange(current, expected) == current = expected

\* SafelyOverflowingIndexQueue::new: capacity + 1 zeroed cells, cursors 0
SOQ_New ==
    [ data           |-> [i \in 0..QueueCapacity |-> 0],
      write_position |-> 0,
      read_position  |-> 0,
      ppc            |-> "idle",     \* producer: position in push
      p_value        |-> 0,          \* push's argument
      p_write_position |-> 0,        \* push's local write_position
      p_read_position |-> 0,         \* push's local read_position
      p_is_full      |-> FALSE,      \* push's local is_full
      cpc            |-> "idle",     \* consumer: position in pop
      c_read_position |-> 0,         \* pop's local read_position
      c_value        |-> 0,          \* pop's local value
      calls          |-> 0,          \* push calls started
      pops           |-> 0,          \* 1 once a pop call was started
      retries        |-> 0,          \* failed compare_exchange of the running pop
      last_push      |-> -1,         \* last finished push: 0 for None, v for Some(v)
      pushed         |-> <<>>,       \* values whose push advanced write_position
      evicted        |-> <<>>,       \* values returned by push as Some(..)
      popped         |-> <<>> ]      \* values returned by pop as Some(..)

\* push, line 293: let write_position = self.write_position.load(Relaxed)
SOQ_PushLoadWritePosition ==
    /\ soq.ppc = "idle"
    /\ soq.calls < MaxPushes
    /\ soq' = [soq EXCEPT !.ppc = "load_read_position",
                          !.calls = @ + 1,
                          !.p_value = soq.calls + 1,
                          !.p_write_position = soq.write_position]

\* push, lines 294-295: load read_position, compute is_full
SOQ_PushLoadReadPosition ==
    /\ soq.ppc = "load_read_position"
    /\ soq' = [soq EXCEPT !.ppc = "write",
                          !.p_read_position = soq.read_position,
                          !.p_is_full = SOQ_IsFull(soq.p_write_position,
                                                   soq.read_position)]

\* push, line 297: self.at(write_position).write(value)
SOQ_PushWrite ==
    /\ soq.ppc = "write"
    /\ soq' = [soq EXCEPT !.ppc = "store",
                          !.data[SOQ_at(soq.p_write_position)] = soq.p_value]

\* push, lines 302-305 and 321-323: write_position.store(write_position + 1,
\* Release); a push that did not see the queue full returns None
SOQ_PushStore ==
    /\ soq.ppc = "store"
    /\ soq' = [soq EXCEPT !.ppc = IF soq.p_is_full THEN "compare_exchange"
                                                   ELSE "idle",
                          !.write_position = soq.p_write_position + 1,
                          !.last_push = IF soq.p_is_full THEN @ ELSE 0,
                          !.pushed = Append(@, soq.p_value)]

\* push, lines 305-318 and 321-323: read_position.compare_exchange(
\* read_position, read_position + 1); None when the consumer was faster
SOQ_PushCompareExchange ==
    /\ soq.ppc = "compare_exchange"
    /\ IF soq.read_position = soq.p_read_position
       THEN soq' = [soq EXCEPT !.ppc = "read_evicted",
                               !.read_position = soq.p_read_position + 1]
       ELSE soq' = [soq EXCEPT !.ppc = "idle", !.last_push = 0]

\* push, lines 319-320: let value = *self.at(read_position); Some(value)
SOQ_PushReadEvicted ==
    /\ soq.ppc = "read_evicted"
    /\ LET value == soq.data[SOQ_at(soq.p_read_position)]
       IN  soq' = [soq EXCEPT !.ppc = "idle",
                              !.last_push = value,
                              !.evicted = Append(@, value)]

\* pop, line 336: let mut read_position = self.read_position.load(Relaxed)
SOQ_PopLoadReadPosition ==
    /\ soq.cpc = "idle"
    /\ soq' = [soq EXCEPT !.cpc = "load_write_position",
                          !.pops = 1,
                          !.retries = 0,
                          !.c_read_position = soq.read_position]

\* pop, lines 340-344: load write_position (Acquire), return None when empty
SOQ_PopLoadWritePosition ==
    /\ soq.cpc = "load_write_position"
    /\ IF soq.c_read_position = soq.write_position
       THEN soq' = [soq EXCEPT !.cpc = "idle"]
       ELSE soq' = [soq EXCEPT !.cpc = "read"]

\* the producer's next step writes the cell of this position
SOQ_WriteRaces(position) ==
    /\ soq.ppc = "write"
    /\ SOQ_at(soq.p_write_position) = SOQ_at(position)

\* pop, line 348: value = *self.at(read_position)
SOQ_PopRead ==
    /\ soq.cpc = "read"
    /\ \E v \in Values :
        /\ SOQ_WriteRaces(soq.c_read_position)
              \/ v = soq.data[SOQ_at(soq.c_read_position)]
        /\ soq' = [soq EXCEPT !.cpc = "compare_exchange", !.c_value = v]

\* pop, lines 350-364: read_position.compare_exchange(read_position,
\* read_position + 1): Ok => Some(value), Err(v) => read_position = v, again
SOQ_PopCompareExchange_Step ==
    /\ soq.cpc = "compare_exchange"
    /\ IF SOQ_PopCompareExchange(soq.read_position, soq.c_read_position)
       THEN soq' = [soq EXCEPT !.cpc = "idle",
                               !.read_position = soq.c_read_position + 1,
                               !.popped = Append(@, soq.c_value)]
       ELSE soq' = [soq EXCEPT !.cpc = "read",
                               !.retries = @ + 1,
                               !.c_read_position = soq.read_position]


\* --------------------------------------- DynamicConfig reference counter

Processes == 1..NumProcesses

\* const MARKED_FOR_DESTRUCTION: u64 = u64::MAX - 1
MARKED_FOR_DESTRUCTION == U64_MAX - 1

RC_IsMarked_NoCheck(current_value) == FALSE

\* increment_reference_counter: if current_value == MARKED_FOR_DESTRUCTION
RC_IsMarked(current_value) == current_value = MARKED_FOR_DESTRUCTION

RC_CompareExchange_LoadThenStore(current, expected) == TRUE

\* reference_counter.compare_exchange(current_value, ..) succeeds iff the
\* counter still holds current_value
RC_CompareExchange(current, expected) == current = expected

RC_DecrementedValue_NoMark(current_value) == current_value - 1

\* decrement_reference_counter: the value compare_exchange writes
RC_DecrementedValue(current_value) ==
    IF current_value = 1 THEN MARKED_FOR_DESTRUCTION ELSE current_value - 1

RC_ResultAtLoopStart_NoReset(previous) == previous

\* decrement_reference_counter: result = HasOwners at the start of every
\* iteration of the loop
RC_ResultAtLoopStart(previous) == "HasOwners"

RC_Result_NeverNoMoreOwners(current_value, previous) == "HasOwners"

\* decrement_reference_counter: result after the arguments of compare_exchange
\* are evaluated
RC_Result(current_value, previous) ==
    IF current_value = 1 THEN "NoMoreOwners" ELSE RC_ResultAtLoopStart(previous)

\* DynamicConfig::new_uninit: reference_counter = 1, held by the creator
\* (process 1); the other processes hold no reference
RC_New ==
    [ reference_counter |-> 1,
      pc            |-> [p \in Processes |-> IF p = 1 THEN "holding" ELSE "none"],
      current_value |-> [p \in Processes |-> 0],   \* local current_value
      result        |-> [p \in Processes |-> "HasOwners"],  \* local result
      returned      |-> [p \in Processes |-> "none"],  \* what p's last call returned
      marked_at_call |-> [p \in Processes |-> FALSE], \* counter was marked when p's call began
      no_more_owners |-> 0 ]    \* calls that returned NoMoreOwners (2: two or more)

\* the processes that hold a reference: the creator, or an opener whose
\* increment succeeded, until its decrement has taken effect
RC_AliveHolders ==
    {p \in Processes : rc.pc[p] \in {"holding", "decrement_loop"}}

\* increment_reference_counter, line 58: current_value = reference_counter.load()
RC_IncrementLoad(p) ==
    /\ rc.pc[p] = "none"
    /\ rc' = [rc EXCEPT !.pc[p] = "increment_loop",
                        !.current_value[p] = rc.reference_counter,
                        !.marked_at_call[p] =
                            (rc.reference_counter = MARKED_FOR_DESTRUCTION)]

\* increment_reference_counter, lines 59-76: one iteration of the loop
RC_IncrementLoop(p) ==
    /\ rc.pc[p] = "increment_loop"
    /\ IF RC_IsMarked(rc.current_value[p])
       THEN rc' = [rc EXCEPT !.pc[p] = "none", !.returned[p] = "Err"]
       ELSE IF RC_CompareExchange(rc.reference_counter, rc.current_value[p])
       THEN rc' = [rc EXCEPT !.pc[p] = "holding",
                             !.returned[p] = "Ok",
                             !.reference_counter = rc.current_value[p] + 1]
       ELSE rc' = [rc EXCEPT !.current_value[p] = rc.reference_counter]

\* decrement_reference_counter, line 81: current_value = reference_counter.load()
RC_DecrementLoad(p) ==
    /\ rc.pc[p] = "holding"
    /\ rc' = [rc EXCEPT !.pc[p] = "decrement_loop",
                        !.current_value[p] = rc.reference_counter,
                        !.marked_at_call[p] =
                            (rc.reference_counter = MARKED_FOR_DESTRUCTION)]

\* decrement_reference_counter, lines 83-101: one iteration of the loop
RC_DecrementLoop(p) ==
    /\ rc.pc[p] = "decrement_loop"
    /\ LET result == RC_Result(rc.current_value[p], rc.result[p])
       IN  IF RC_CompareExchange(rc.reference_counter, rc.current_value[p])
           THEN rc' = [rc EXCEPT
                   !.pc[p] = "none",
                   !.result[p] = "HasOwners",
                   !.returned[p] = result,
                   !.reference_counter = RC_DecrementedValue(rc.current_value[p]),
                   !.no_more_owners = IF result = "NoMoreOwners" /\ @ < 2
                                      THEN @ + 1 ELSE @]
           ELSE rc' = [rc EXCEPT !.result[p] = result,
                                 !.current_value[p] = rc.reference_counter]

\* decrement_reference_counter, line 81, called by a process that holds no
\* reference while the counter holds the sentinel
RC_DecrementLoadMarked(p) ==
    /\ rc.pc[p] = "none"
    /\ rc.reference_counter = MARKED_FOR_DESTRUCTION
    /\ rc' = [rc EXCEPT !.pc[p] = "decrement_loop",
                        !.current_value[p] = rc.reference_counter,
                        !.marked_at_call[p] = TRUE]

\* ------------------------------------------------- static_storage::file

\* The storage's path holds at most one file; a file that was removed lives on
\* for the processes that still have it open, and is given up with the last of
\* them.  create writes the content from its first byte on, so a file's
\* content is described by its size.  The storage directory
\* (Configuration::path, the temp directory by default) exists.
StorageUsers == 1..NumStorageUsers

Files == 1..(NumStorageUsers + 1)

FINAL_PERMISSIONS_OwnerAll == "OWNER_ALL"

\* const FINAL_PERMISSIONS: Permission = Permission::OWNER_READ
FINAL_PERMISSIONS == "OWNER_READ"

SS_CreationPermission_Final == "OWNER_READ"

\* create_locked: FileBuilder::permission(Permission::OWNER_ALL)
SS_CreationPermission == "OWNER_ALL"

SS_CreationMode_PurgeAndCreate == "PurgeAndCreate"

\* create_locked: FileBuilder::creation_mode(CreationMode::CreateExclusive)
SS_CreationMode == "CreateExclusive"

File_Unused == [permission |-> "none", size |-> 0]

\* no file under the path, and no process in a call
SS_New ==
    [ path    |-> 0,      \* the file under the storage's path, 0: there is none
      files   |-> [f \in Files |-> File_Unused],
      pc      |-> [p \in StorageUsers |-> "none"],
      file    |-> [p \in StorageUsers |-> 0],          \* Storage::file
      len     |-> [p \in StorageUsers |-> 0],          \* Storage::len
      returned |-> [process |-> 0, value |-> "none"], \* the call that returned last
      opened  |-> [p \in StorageUsers |-> "none"],     \* how p's open found the file
      winners |-> {} ]    \* creates that succeeded since a drop last freed the path

\* a file that is neither under the path nor open in a process is given up
File_Reclaim(s) ==
    [s EXCEPT !.files = [f \in Files |->
        IF f = s.path \/ (\E p \in StorageUsers : s.file[p] = f)
        THEN s.files[f] ELSE File_Unused]]

\* File::remove(path): the path holds no file afterwards
File_Remove(s) == File_Reclaim([s EXCEPT !.path = 0])

\* FileBuilder::create: CreateExclusive fails when the path holds a file,
\* PurgeAndCreate replaces that file; p has the new file open
File_Create(s, p, mode, permission) ==
    IF s.path # 0 /\ mode = "CreateExclusive"
    THEN [result |-> "FileAlreadyExists", s |-> s]
    ELSE LET t == File_Remove(s)
             f == CHOOSE g \in Files :
                     /\ t.files[g] = File_Unused
                     /\ \A q \in StorageUsers : t.file[q] # g
                     /\ \A h \in Files :
                           (t.files[h] = File_Unused /\ \A q \in StorageUsers : t.file[q] # h)
                               => g <= h
         IN  [result |-> "Ok",
              s |-> [t EXCEPT !.path = f,
                              !.files[f] = [permission |-> permission, size |-> 0],
                              !.file[p] = f,
                              !.winners = @ \cup {p}]]

\* create_locked, lines 328-346: Locked { Storage { file, len: 0 } } or,
\* mapped from FileAlreadyExists, StaticStorageCreateError::AlreadyExists
SS_create_locked(s, p) ==
    LET r == File_Create(s, p, SS_CreationMode, SS_CreationPermission)
    IN  IF r.result = "FileAlreadyExists"
        THEN [s EXCEPT !.returned = [process |-> p, value |-> "AlreadyExists"],
                       !.pc[p] = "none"]
        ELSE [r.s EXCEPT !.pc[p] = "unlock_write", !.len[p] = 0]

\* unlock, lines 96-100: file.write(contents), n bytes are in the file
SS_unlock_write(s, p, n) ==
    [s EXCEPT !.files[s.file[p]].size = n,
              !.pc[p] = IF n = ContentLen THEN "unlock_set_permission"
                        ELSE "unlock_write_returns"]

\* unlock, lines 96-106: the write returns: all bytes are written, or
\* bytes_written != contents.len() and unlock fails, which create maps to
\* StaticStorageCreateError::Write; the Locked is dropped
SS_unlock_write_returns(s, p, complete) ==
    IF complete
    THEN [s EXCEPT !.files[s.file[p]].size = ContentLen,
                   !.pc[p] = "unlock_set_permission"]
    ELSE [s EXCEPT !.returned = [process |-> p, value |-> "Write"],
                   !.pc[p] = "drop"]

\* unlock, lines 108-115: file.set_permission(FINAL_PERMISSIONS), then
\* static_storage.len = contents.len(); a failure drops the Locked
SS_unlock_set_permission(s, p, ok) ==
    IF ok
    THEN [s EXCEPT !.files[s.file[p]].permission = FINAL_PERMISSIONS,
                   !.len[p] = ContentLen,
                   !.returned = [process |-> p, value |-> "Ok"],
                   !.pc[p] = "storage"]
    ELSE [s EXCEPT !.returned = [process |-> p, value |-> "Write"],
                   !.pc[p] = "drop"]

\* Drop for Storage, lines 129-137, with remove_cfg: an owner removes the file
\* under the storage's path; the file is closed
SS_drop(s, p, has_ownership) ==
    LET t == [s EXCEPT !.pc[p] = "none",
                       !.file[p] = 0,
                       !.len[p] = 0,
                       !.opened[p] = "none"]
    IN  IF has_ownership
        THEN File_Remove([t EXCEPT !.winners = {}])
        ELSE File_Reclaim(t)

\* open, lines 353-356: FileBuilder::open_existing(AccessMode::Read), any
\* failure is StaticStorageOpenError::DoesNotExist
SS_open_existing(s, p) ==
    IF s.path = 0
    THEN [s EXCEPT !.returned = [process |-> p, value |-> "DoesNotExist"],
                   !.pc[p] = "none"]
    ELSE [s EXCEPT !.pc[p] = "open_metadata",
                   !.file[p] = s.path,
                   !.opened[p] = IF s.files[s.path].permission = FINAL_PERMISSIONS
                                 THEN "unlocked" ELSE "locked"]

\* open, lines 358-373: file.metadata(): IsLocked unless the permissions are
\* FINAL_PERMISSIONS, else Storage { file, len: metadata.size() }
SS_open_metadata(s, p) ==
    LET metadata == s.files[s.file[p]]
    IN  IF metadata.permission # FINAL_PERMISSIONS
        THEN File_Reclaim([s EXCEPT !.returned = [process |-> p, value |-> "IsLocked"],
                                    !.pc[p] = "none",
                                    !.file[p] = 0,
                                    !.opened[p] = "none"])
        ELSE [s EXCEPT !.returned = [process |-> p, value |-> "Ok"],
                       !.len[p] = metadata.size,
                       !.pc[p] = "storage"]

\* StaticStorageBuilder::create, first step: create_locked
SS_CreateLocked(p) ==
    /\ ss.pc[p] = "none"
    /\ ss' = SS_create_locked(ss, p)

SS_UnlockWrite(p) ==
    /\ ss.pc[p] = "unlock_write"
    /\ \E n \in 0..ContentLen : ss' = SS_unlock_write(ss, p, n)

SS_UnlockWriteReturns(p) ==
    /\ ss.pc[p] = "unlock_write_returns"
    /\ \E complete \in BOOLEAN : ss' = SS_unlock_write_returns(ss, p, complete)

SS_UnlockSetPermission(p) ==
    /\ ss.pc[p] = "unlock_set_permission"
    /\ \E ok \in BOOLEAN : ss' = SS_unlock_set_permission(ss, p, ok)

\* the Storage (or, after a failed unlock, the Locked) goes out of scope; it
\* has the ownership that the builder, release_ownership or acquire_ownership
\* gave it
SS_Drop(p) ==
    /\ ss.pc[p] \in {"storage", "drop"}
    /\ \E has_ownership \in BOOLEAN : ss' = SS_drop(ss, p, has_ownership)

SS_OpenExisting(p) ==
    /\ ss.pc[p] = "none"
    /\ ss' = SS_open_existing(ss, p)

SS_OpenMetadata(p) ==
    /\ ss.pc[p] = "open_metadata"
    /\ ss' = SS_open_metadata(ss, p)

\* ------------------------------------------------------ service lifecycle

\* Creating, opening and dropping the service of one name.  Every creation
\* makes a new instance: a static file and, once created, a dynamic config
\* segment with the reference counter.  An instance that was removed lives on
\* for the processes that still have its file open or its segment mapped.
\* The steps of create, open, drop and open_or_create are those of the
\* specification's service lifecycle (section 4.3); they use the static
\* storage's create_locked, unlock and open and the dynamic config's
\* increment_reference_counter and decrement_reference_counter.
ServiceUsers == 1..NumServiceUsers

Instances == 1..(NumServiceUsers + 1)

\* dropped: the drop of a last holder removed the instance's file or segment
Svc_Unused == [permission |-> "none", reference_counter |-> 0, dropped |-> FALSE]

Svc_New ==
    [ path      |-> 0,    \* instance whose static file is under the name, 0: none
      name      |-> 0,    \* instance whose dynamic segment is under the name, 0: none
      instances |-> [i \in Instances |-> Svc_Unused],
      pc        |-> [p \in ServiceUsers |-> "none"],
      call      |-> [p \in ServiceUsers |-> "none"],   \* create, open or open_or_create
      called    |-> [p \in ServiceUsers |-> FALSE],    \* p has called open_or_create
      attempts  |-> [p \in ServiceUsers |-> 0],        \* retries of p's call so far
      file      |-> [p \in ServiceUsers |-> 0],        \* the static file p has open
      segment   |-> [p \in ServiceUsers |-> 0],        \* the dynamic segment p has mapped
      current_value |-> [p \in ServiceUsers |-> 0],    \* local current_value
      result    |-> [p \in ServiceUsers |-> "HasOwners"], \* local result of decrement
      pending   |-> [p \in ServiceUsers |-> {}],       \* artifacts p has yet to remove
      met_teardown |-> [p \in ServiceUsers |-> FALSE], \* p's call met a last drop at work
      returned  |-> [process |-> 0, call |-> "none", value |-> "none",
                     met_teardown |-> FALSE],   \* the call that returned in the last step
      creators  |-> {} ]  \* processes whose creation succeeded

\* an instance that is under neither name and that no process has open or
\* mapped is given up
Svc_Reclaim(s) ==
    [s EXCEPT !.instances = [i \in Instances |->
        IF i = s.path \/ i = s.name
           \/ (\E p \in ServiceUsers : s.file[p] = i \/ s.segment[p] = i)
        THEN s.instances[i] ELSE Svc_Unused]]

\* p's call returns value; with a handle p holds a counted reference
Svc_Return(s, p, value) ==
    Svc_Reclaim(
        [s EXCEPT !.pc[p] = IF value = "Ok" THEN "holding" ELSE "none",
                  !.call[p] = "none",
                  !.attempts[p] = 0,
                  !.file[p] = 0,
                  !.segment[p] = IF value = "Ok" THEN @ ELSE 0,
                  !.current_value[p] = 0,
                  !.met_teardown[p] = FALSE,
                  !.returned = [process |-> p, call |-> s.call[p], value |-> value,
                                met_teardown |-> s.met_teardown[p]]])

\* p's attempt met a service that is being set up or torn down: open returns
\* IsLocked at once; otherwise the call starts over at the static file, up to
\* MaxRetries times, and then fails
Svc_Transient(s, p, error) ==
    IF s.call[p] = "open" /\ error = "IsLocked"
    THEN Svc_Return(s, p, "IsLocked")
    ELSE IF s.attempts[p] < MaxRetries
    THEN Svc_Reclaim([s EXCEPT !.attempts[p] = @ + 1,
                               !.pc[p] = "open_static",
                               !.file[p] = 0,
                               !.segment[p] = 0,
                               !.current_value[p] = 0])
    ELSE Svc_Return(s, p, error)

\* the state a step starts from: what the last step returned has been taken
Svc_Cleared == [svc EXCEPT !.returned = Svc_New.returned]

\* a process calls create or open
Svc_Call(p) ==
    LET s == Svc_Cleared
    IN  /\ s.pc[p] = "none"
        /\ \E call \in {"create", "open"} :
              svc' = [s EXCEPT !.call[p] = call,
                                 !.pc[p] = IF call = "create" THEN "create_static"
                                           ELSE "open_static"]

\* a process calls open_or_create, once
Svc_OpenOrCreate(p) ==
    LET s == Svc_Cleared
    IN  /\ s.pc[p] = "none"
        /\ ~s.called[p]
        /\ svc' = [s EXCEPT !.call[p] = "open_or_create",
                              !.called[p] = TRUE,
                              !.pc[p] = "open_static"]

\* open, step 1: static_storage open, open_existing (file.rs lines 353-356);
\* open_or_create goes on to create when the file does not exist
Svc_OpenStatic(p) ==
    LET s == Svc_Cleared
    IN  /\ s.pc[p] = "open_static"
        /\ svc' = IF s.path = 0
                  THEN IF s.call[p] = "open_or_create"
                       THEN [s EXCEPT !.pc[p] = "create_static"]
                       ELSE Svc_Return(s, p, "DoesNotExist")
                  ELSE [s EXCEPT !.pc[p] = "open_metadata", !.file[p] = s.path]

\* open, step 1: static_storage open, metadata (file.rs lines 358-373)
Svc_OpenMetadata(p) ==
    LET s == Svc_Cleared
    IN  /\ s.pc[p] = "open_metadata"
        /\ svc' = IF s.instances[s.file[p]].permission # FINAL_PERMISSIONS
                  THEN Svc_Transient(s, p, "IsLocked")
                  ELSE Svc_Reclaim([s EXCEPT !.pc[p] = "open_dynamic", !.file[p] = 0])

\* open, step 3: the dynamic segment under the name is mapped; without a
\* segment the service is being torn down
Svc_OpenDynamic(p) ==
    LET s == Svc_Cleared
    IN  /\ s.pc[p] = "open_dynamic"
        /\ svc' = IF s.name = 0
                  THEN Svc_Transient([s EXCEPT !.met_teardown[p] = TRUE], p,
                                     "UnderlyingResourcesCorrupted")
                  ELSE [s EXCEPT !.pc[p] = "increment_load", !.segment[p] = s.name]

\* increment_reference_counter, line 58
Svc_IncrementLoad(p) ==
    LET s == Svc_Cleared
    IN  /\ s.pc[p] = "increment_load"
        /\ svc' = [s EXCEPT
                     !.pc[p] = "increment_loop",
                     !.current_value[p] = s.instances[s.segment[p]].reference_counter]

\* increment_reference_counter, lines 59-76; open, step 3: a marked counter
\* makes the open start over
Svc_IncrementLoop(p) ==
    LET s == Svc_Cleared
    IN  /\ s.pc[p] = "increment_loop"
        /\ LET i == s.segment[p]
           IN  svc' =
                 IF RC_IsMarked(s.current_value[p])
                 THEN Svc_Transient([s EXCEPT !.met_teardown[p] = TRUE], p,
                                    "UnderlyingResourcesCorrupted")
                 ELSE IF RC_CompareExchange(s.instances[i].reference_counter,
                                            s.current_value[p])
                 THEN Svc_Return([s EXCEPT !.instances[i].reference_counter =
                                                 s.current_value[p] + 1], p, "Ok")
                 ELSE [s EXCEPT !.current_value[p] = s.instances[i].reference_counter]

\* create, step 1: static_storage create_locked (file.rs lines 328-346)
Svc_CreateStatic(p) ==
    LET s == Svc_Cleared
    IN  /\ s.pc[p] = "create_static"
        /\ svc' =
             IF s.path # 0 /\ SS_CreationMode = "CreateExclusive"
             THEN IF s.call[p] = "create"
                  THEN Svc_Return(s, p, "AlreadyExists")
                  ELSE Svc_Transient(s, p, "AlreadyExists")
             ELSE LET t == Svc_Reclaim([s EXCEPT !.path = 0])
                      i == CHOOSE j \in Instances :
                              /\ t.instances[j] = Svc_Unused
                              /\ \A k \in Instances : t.instances[k] = Svc_Unused => j <= k
                  IN  [t EXCEPT !.path = i,
                                !.instances[i] = [permission |-> SS_CreationPermission,
                                                  reference_counter |-> 0,
                                                  dropped |-> FALSE],
                                !.file[p] = i,
                                !.pc[p] = "create_dynamic"]

\* create, step 2: the dynamic segment is created under the name, with
\* DynamicConfig::new_uninit (reference_counter = 1); with a segment under
\* the name the creation fails
Svc_CreateDynamic(p) ==
    LET s == Svc_Cleared
    IN  /\ s.pc[p] = "create_dynamic"
        /\ svc' = IF s.name # 0
                  THEN [s EXCEPT !.pc[p] = "cleanup", !.pending[p] = {"static"}]
                  ELSE [s EXCEPT !.pc[p] = "unlock",
                                   !.name = s.file[p],
                                   !.segment[p] = s.file[p],
                                   !.instances[s.file[p]].reference_counter = 1]

\* create, step 3: unlock (file.rs lines 94-116) writes the content and sets
\* FINAL_PERMISSIONS, or fails
Svc_Unlock(p) ==
    LET s == Svc_Cleared
    IN  /\ s.pc[p] = "unlock"
        /\ \E ok \in BOOLEAN :
              svc' = IF ok
                     THEN Svc_Return(
                            [s EXCEPT !.instances[s.file[p]].permission = FINAL_PERMISSIONS,
                                        !.creators = @ \cup {p}], p, "Ok")
                     ELSE [s EXCEPT !.pc[p] = "cleanup",
                                      !.pending[p] = {"static", "dynamic"}]

\* create, step 4, and drop of the last holder: the static file and the
\* dynamic segment are removed from under the name, one at a time
Svc_Remove(p) ==
    LET s == Svc_Cleared
    IN  /\ s.pc[p] \in {"cleanup", "remove"}
        /\ \E artifact \in s.pending[p] :
              LET i == IF artifact = "static" THEN s.path ELSE s.name
                  u == IF s.pc[p] = "remove" /\ i # 0
                       THEN [s EXCEPT !.instances[i].dropped = TRUE]
                       ELSE s
                  t == [u EXCEPT !.pending[p] = @ \ {artifact},
                                 !.path = IF artifact = "static" THEN 0 ELSE @,
                                 !.name = IF artifact = "dynamic" THEN 0 ELSE @]
              IN  svc' = IF t.pending[p] # {}
                         THEN Svc_Reclaim(t)
                         ELSE IF s.pc[p] = "cleanup"
                         THEN Svc_Return(t, p, "CreationFailed")
                         ELSE Svc_Reclaim([t EXCEPT !.pc[p] = "none",
                                                    !.file[p] = 0,
                                                    !.segment[p] = 0,
                                                    !.returned =
                                                        [process |-> p, call |-> "drop",
                                                         value |-> "NoMoreOwners",
                                                         met_teardown |-> FALSE]])

\* drop: decrement_reference_counter, line 81
Svc_DecrementLoad(p) ==
    LET s == Svc_Cleared
    IN  /\ s.pc[p] = "holding"
        /\ svc' = [s EXCEPT
                     !.pc[p] = "decrement_loop",
                     !.current_value[p] = s.instances[s.segment[p]].reference_counter]

\* drop: decrement_reference_counter, lines 83-101; NoMoreOwners makes the
\* process remove the static file and the dynamic segment
Svc_DecrementLoop(p) ==
    LET s == Svc_Cleared
    IN  /\ s.pc[p] = "decrement_loop"
        /\ LET i == s.segment[p]
               result == RC_Result(s.current_value[p], s.result[p])
           IN  svc' =
                 IF RC_CompareExchange(s.instances[i].reference_counter,
                                       s.current_value[p])
                 THEN LET t == [s EXCEPT
                                  !.instances[i].reference_counter =
                                      RC_DecrementedValue(s.current_value[p]),
                                  !.result[p] = "HasOwners",
                                  !.current_value[p] = 0,
                                  !.creators = @ \ {p}]
                      IN  IF result = "NoMoreOwners"
                          THEN [t EXCEPT !.pc[p] = "remove",
                                         !.pending[p] = {"static", "dynamic"}]
                          ELSE Svc_Reclaim([t EXCEPT !.pc[p] = "none", !.segment[p] = 0])
                 ELSE [s EXCEPT !.result[p] = result,
                                  !.current_value[p] = s.instances[i].reference_counter]

\* ------------------------------------------- Producer and Consumer guards

\* the three SPSC queues, which share the guard code
GD_Kinds == {"index_queue", "safely_overflowing_index_queue", "queue"}

\* threads that call acquire_producer / acquire_consumer on one queue
GD_Threads == 1..NumProcesses

GD_CompareExchange_AlwaysOk(current, expected) == TRUE

\* has_producer.compare_exchange(true, false, Relaxed, Relaxed) and the same
\* on has_consumer: Ok iff the flag holds the expected value
GD_CompareExchange(current, expected) == current = expected

GD_DropStore_KeepsFlag(flag) == flag

\* Drop for Producer / Consumer: has_producer.store(true, Relaxed)
GD_DropStore(flag) == TRUE

\* cell of a position: the overflowing queue has capacity + 1 cells
GD_at(kind, position) ==
    IF kind = "safely_overflowing_index_queue" THEN SOQ_at(position)
    ELSE IQ_at(position)

\* the queue before new(): no kind yet; new() sets both flags to true, the
\* cursors to 0
GD_New ==
    [ kind           |-> "none",
      has_producer   |-> TRUE,
      has_consumer   |-> TRUE,
      data           |-> [i \in 0..QueueCapacity |-> 0],
      write_position |-> 0,
      read_position  |-> 0,
      producers      |-> [t \in GD_Threads |-> 0],   \* Producer guards t holds
      consumers      |-> [t \in GD_Threads |-> 0],   \* Consumer guards t holds
      returned       |-> [thread |-> 0, call |-> "none", value |-> "none"] ]

\* guards of one kind that exist
GD_Count(guards) ==
    LET RECURSIVE Sum(_)
        Sum(t) == IF t = 0 THEN 0 ELSE guards[t] + Sum(t - 1)
    IN Sum(NumProcesses)

\* the queue's contents and cursors
GD_Queue(g) == <<g.data, g.write_position, g.read_position>>

\* IndexQueue::new / SafelyOverflowingIndexQueue::new / Queue::new
GD_Construct(kind) ==
    /\ gd.kind = "none"
    /\ gd' = [gd EXCEPT !.kind = kind]

\* acquire_producer: Some(Producer) iff the compare_exchange succeeds
GD_AcquireProducer(t) ==
    /\ gd.kind # "none"
    /\ gd.producers[t] < 2
    /\ IF GD_CompareExchange(gd.has_producer, TRUE)
       THEN gd' = [gd EXCEPT !.has_producer = FALSE,
                             !.producers[t] = @ + 1,
                             !.returned = [thread |-> t, call |-> "acquire_producer",
                                           value |-> "Some"]]
       ELSE gd' = [gd EXCEPT !.returned = [thread |-> t, call |-> "acquire_producer",
                                           value |-> "None"]]

\* acquire_consumer: Some(Consumer) iff the compare_exchange succeeds
GD_AcquireConsumer(t) ==
    /\ gd.kind # "none"
    /\ gd.consumers[t] < 2
    /\ IF GD_CompareExchange(gd.has_consumer, TRUE)
       THEN gd' = [gd EXCEPT !.has_consumer = FALSE,
                             !.consumers[t] = @ + 1,
                             !.returned = [thread |-> t, call |-> "acquire_consumer",
                                           value |-> "Some"]]
       ELSE gd' = [gd EXCEPT !.returned = [thread |-> t, call |-> "acquire_consumer",
                                           value |-> "None"]]

\* Drop for Producer
GD_DropProducer(t) ==
    /\ gd.producers[t] > 0
    /\ gd' = [gd EXCEPT !.has_producer = GD_DropStore(@),
                        !.producers[t] = @ - 1,
                        !.returned = [thread |-> t, call |-> "drop_producer",
                                      value |-> "none"]]

\* Drop for Consumer
GD_DropConsumer(t) ==
    /\ gd.consumers[t] > 0
    /\ gd' = [gd EXCEPT !.has_consumer = GD_DropStore(@),
                        !.consumers[t] = @ - 1,
                        !.returned = [thread |-> t, call |-> "drop_consumer",
                                      value |-> "none"]]

\* Producer::push of the k-th value k: false when full; the overflowing queue
\* instead stores the value and moves read_position past the oldest one
GD_Push(t) ==
    /\ gd.producers[t] > 0
    /\ gd.write_position < MaxPushes
    /\ LET full == IQ_IsFull(gd.write_position, gd.read_position)
           stored == [gd EXCEPT !.data[GD_at(gd.kind, gd.write_position)] =
                                    gd.write_position + 1,
                                !.write_position = @ + 1,
                                !.returned = [thread |-> t, call |-> "push",
                                              value |-> "true"]]
       IN IF ~full THEN gd' = stored
          ELSE IF gd.kind = "safely_overflowing_index_queue"
          THEN gd' = [stored EXCEPT !.read_position = @ + 1]
          ELSE gd' = [gd EXCEPT !.returned = [thread |-> t, call |-> "push",
                                              value |-> "false"]]

\* Consumer::pop: None when empty, else the oldest value
GD_Pop(t) ==
    /\ gd.consumers[t] > 0
    /\ IF IQ_IsEmpty(gd.write_position, gd.read_position)
       THEN gd' = [gd EXCEPT !.returned = [thread |-> t, call |-> "pop",
                                           value |-> "None"]]
       ELSE gd' = [gd EXCEPT !.read_position = @ + 1,
                             !.returned = [thread |-> t, call |-> "pop",
                                           value |-> "Some"]]

\* ------------------------------------------------- Notifier and Listener

\* The Notifier follows port/notifier.rs.  The listener port, its event
\* channel and the registries of the dynamic config are those of the
\* specification's sections 4.4 and 4.5: a listener creates its channel and
\* adds its id to the first free slot of the registry, its drop takes the id out and
\* removes the channel, try_wait drains the channel.  Ports are numbered in
\* the order of their creation.

Listeners == 1..NumListeners
Notifiers == 1..NumNotifiers
\* slots of the listener registry (max_listeners), which is also the length
\* of a notifier's connection table
EV_Slots == 1..MaxListeners

\* the registry's and the connection table's empty slot
EV_NoSlots == [i \in EV_Slots |-> 0]

EV_New ==
    [ listeners     |-> EV_NoSlots,                    \* registry: slot -> listener id
      notifiers     |-> {},                            \* registry of notifier ids
      other_notifiers |-> 0,       \* registry slots held by notifiers of other processes
      lpc           |-> [l \in Listeners |-> "none"],
      channel       |-> [l \in Listeners |-> <<>>],    \* ids written and not yet drained
      npc           |-> [n \in Notifiers |-> "none"],
      \* listener_list_state: the registry as the last get_state / update of
      \* a running call saw it, and whether the registry has changed since
      listener_list_state  |-> [n \in Notifiers |-> EV_NoSlots],
      changed       |-> [n \in Notifiers |-> FALSE],
      listener_connections |-> [n \in Notifiers |-> EV_NoSlots],
      value         |-> [n \in Notifiers |-> 0],       \* notify's argument
      notifies      |-> 0,                             \* notify calls begun, of all notifiers
      \* listeners whose channel a notifier cannot open for the time being
      unreachable   |-> {},
      \* the last call: its result, the ids of a try_wait, the number of a notify
      returned      |-> [port |-> 0, call |-> "none", result |-> "none",
                         ids |-> <<>>, number |-> 0] ]

\* Notifier::new, default_trigger_id: notifier n is created with the id n
EV_default_trigger_id(n) == n

\* an id that is no notifier's default id
EV_CustomId == 0

\* the static config's event_id_max_value; the notifiers' default ids are
\* within it
event_id_max_value == NumNotifiers

\* an id greater than event_id_max_value
EV_LargeId == event_id_max_value + 1

\* the event channel of listener l exists
EV_ChannelExists(e, l) == e.lpc[l] = "registered"

\* listeners whose id is in the registry
EV_Registered(e) == {l \in Listeners : \E i \in EV_Slots : e.listeners[i] = l}

EV_create_NeverOpens(connection, listener_id, exists) ==
    [ok |-> TRUE, connection |-> connection]

\* ListenerConnections::create: opens the channel of listener_id only if the
\* slot holds no connection; the open fails if the channel does not exist
EV_create(connection, listener_id, exists) ==
    IF connection # 0 THEN [ok |-> TRUE, connection |-> connection]
    ELSE IF exists THEN [ok |-> TRUE, connection |-> listener_id]
    ELSE [ok |-> FALSE, connection |-> connection]

\* populate_listener_channels from slot i on: a slot with a listener id gets
\* its connection created, a slot without one loses its connection; the first
\* failed create ends the pass with Err
RECURSIVE EV_populate_listener_channels(_, _, _, _)
EV_populate_listener_channels(e, connections, state, i) ==
    IF i > MaxListeners THEN [ok |-> TRUE, connections |-> connections]
    ELSE IF state[i] = 0
    THEN EV_populate_listener_channels(e, [connections EXCEPT ![i] = 0], state, i + 1)
    ELSE LET c == EV_create(connections[i], state[i],
                            EV_ChannelExists(e, state[i]) /\ state[i] \notin e.unreachable)
         IN IF c.ok
            THEN EV_populate_listener_channels(
                     e, [connections EXCEPT ![i] = c.connection], state, i + 1)
            ELSE [ok |-> FALSE, connections |-> connections]

EV_NotifyNext_StopAtFailure(i, ok) == IF ok THEN i + 1 ELSE MaxListeners + 1

\* the loop of lines 190-202 goes on to the next connection after a write,
\* failed or not
EV_NotifyNext(i, ok) == i + 1

\* notify_with_custom_trigger_id, lines 188-204, from connection i on: every
\* connection gets the value; a write fails if the listener's channel is
\* gone; the successful writes are counted
RECURSIVE EV_notify_loop(_, _, _, _, _)
EV_notify_loop(e, connections, value, i, channel) ==
    IF i > MaxListeners
    THEN [channel |-> channel, number_of_triggered_listeners |-> 0]
    ELSE LET l == connections[i]
             ok == l # 0 /\ EV_ChannelExists(e, l)
             rest == EV_notify_loop(
                         e, connections, value,
                         IF l = 0 THEN i + 1 ELSE EV_NotifyNext(i, ok),
                         IF ok THEN [channel EXCEPT ![l] = Append(@, value)]
                         ELSE channel)
         IN [rest EXCEPT !.number_of_triggered_listeners = @ + (IF ok THEN 1 ELSE 0)]

\* the last call's result lasts one step
EV_Cleared == [ev EXCEPT !.returned = EV_New.returned]

\* Listener::new: the event channel, then the id in a free slot
EV_ListenerNew(l) ==
    LET e == EV_Cleared IN
    /\ e.lpc[l] = "none"
    /\ IF l = 1 THEN TRUE ELSE e.lpc[l - 1] # "none"
    /\ \E slot \in EV_Slots :
        /\ e.listeners[slot] = 0
        /\ \A free \in EV_Slots : e.listeners[free] = 0 => slot <= free
        /\ ev' = [e EXCEPT !.lpc[l] = "registered",
                           !.listeners[slot] = l,
                           !.changed = [n \in Notifiers |-> e.npc[n] # "none"]]

\* Drop for Listener: the id leaves the registry, the channel is removed
EV_ListenerDrop(l) ==
    LET e == EV_Cleared IN
    /\ e.lpc[l] = "registered"
    /\ ev' = [e EXCEPT !.lpc[l] = "dropped",
                       !.channel[l] = <<>>,
                       !.changed = [n \in Notifiers |-> e.npc[n] # "none"],
                       !.listeners = [i \in EV_Slots |-> IF @[i] = l THEN 0 ELSE @[i]]]

\* Listener::try_wait: returns the ids in the channel and leaves it empty
EV_TryWait(l) ==
    LET e == EV_Cleared IN
    /\ e.lpc[l] = "registered"
    /\ e.channel[l] # <<>>
    /\ ev' = [e EXCEPT !.channel[l] = <<>>,
                       !.returned = [port |-> l, call |-> "try_wait", result |-> "Ok",
                                     ids |-> e.channel[l], number |-> 0]]

\* max_notifiers of the event service: slots of the notifier registry
max_notifiers == NumNotifiers

\* add_notifier_id finds a free slot of the notifier registry
EV_add_notifier_id(e) == Cardinality(e.notifiers) + e.other_notifiers < max_notifiers

EV_NewResult_NeverExceeds(unique_index) == "Ok"

\* Notifier::new, lines 116-128: the match on what add_notifier_id returned
EV_NewResult(unique_index) ==
    IF unique_index THEN "Ok" ELSE "ExceedsMaxSupportedNotifiers"

\* Notifier::new, lines 101-131: listener_list.get_state(), then
\* add_notifier_id(port_id); without a free slot the call fails at once
EV_NotifierNewAddId(n) ==
    LET e == EV_Cleared IN
    /\ e.npc[n] = "none"
    /\ IF n = 1 THEN TRUE ELSE e.npc[n - 1] # "none"
    /\ IF EV_NewResult(EV_add_notifier_id(e)) = "Ok"
       THEN ev' = [e EXCEPT !.npc[n] = "new_populate",
                            !.listener_list_state[n] = e.listeners,
                            !.notifiers = @ \cup {n}]
       ELSE ev' = [e EXCEPT !.returned =
                        [port |-> n, call |-> "new",
                         result |-> "ExceedsMaxSupportedNotifiers",
                         ids |-> <<>>, number |-> 0]]

\* Drop for Notifier: the guard of the registry slot takes the id out, the
\* connections are closed
EV_NotifierDrop(n) ==
    LET e == EV_Cleared IN
    /\ e.npc[n] = "idle"
    /\ ev' = [e EXCEPT !.npc[n] = "none",
                       !.notifiers = @ \ {n},
                       !.listener_connections[n] = EV_NoSlots,
                       !.changed[n] = FALSE,
                       !.returned = [port |-> n, call |-> "drop", result |-> "Ok",
                                     ids |-> <<>>, number |-> 0]]

\* a notifier of another process takes a slot of the notifier registry
EV_OtherNotifierNew ==
    LET e == EV_Cleared IN
    /\ EV_add_notifier_id(e)
    /\ ev' = [e EXCEPT !.other_notifiers = @ + 1]

\* a notifier of another process is dropped
EV_OtherNotifierDrop ==
    LET e == EV_Cleared IN
    /\ e.other_notifiers > 0
    /\ ev' = [e EXCEPT !.other_notifiers = @ - 1]

\* Notifier::new, lines 133-137: populate_listener_channels, a failure only
\* warns
EV_NotifierNewPopulate(n) ==
    LET e == EV_Cleared
        r == EV_populate_listener_channels(e, e.listener_connections[n],
                                           e.listener_list_state[n], 1)
    IN
    /\ e.npc[n] = "new_populate"
    /\ ev' = [e EXCEPT !.npc[n] = "idle",
                       !.listener_connections[n] = r.connections,
                       !.listener_list_state[n] = EV_NoSlots,
                       !.returned = [port |-> n, call |-> "new", result |-> "Ok",
                                     ids |-> <<>>, number |-> 0]]

\* notify_with_custom_trigger_id(value), line 184: update_connections reads
\* listener_list_state.update(); without a change the loop is next
EV_update(e, n, value) ==
    [e EXCEPT !.npc[n] = IF e.changed[n] THEN "populate" ELSE "write",
              !.listener_list_state[n] = e.listeners,
              !.changed[n] = FALSE,
              !.value[n] = value,
              !.notifies = @ + 1]

\* Notifier::notify: notify_with_custom_trigger_id(default_trigger_id)
EV_Notify(n) ==
    LET e == EV_Cleared IN
    /\ e.npc[n] = "idle"
    /\ e.notifies < MaxNotifies
    /\ ev' = EV_update(e, n, EV_default_trigger_id(n))

\* Notifier::notify_with_custom_trigger_id with an id of the caller's choice
EV_NotifyWithCustomTriggerId(n) ==
    LET e == EV_Cleared IN
    /\ e.npc[n] = "idle"
    /\ e.notifies < MaxNotifies
    /\ \E value \in {EV_CustomId, EV_default_trigger_id(n), EV_LargeId} :
           ev' = EV_update(e, n, value)

\* Notifier::notify of a caller that notifies again and again: it waits until
\* the listeners have taken what was written
EV_NotifyAgain(n) ==
    LET e == EV_Cleared IN
    /\ e.npc[n] = "idle"
    /\ \A l \in Listeners : e.channel[l] = <<>>
    /\ ev' = [EV_update(e, n, EV_default_trigger_id(n)) EXCEPT !.notifies = e.notifies]

\* NotifierBuilder::open of the channel of listener l starts to fail
EV_OpenFails(l) ==
    /\ l \notin ev.unreachable
    /\ ev' = [EV_Cleared EXCEPT !.unreachable = @ \cup {l}]

\* NotifierBuilder::open of the channel of listener l works again
EV_OpenWorks(l) ==
    /\ l \in ev.unreachable
    /\ ev' = [EV_Cleared EXCEPT !.unreachable = @ \ {l}]

\* update_connections, lines 141-145: populate_listener_channels after a
\* change; its failure ends notify with OnlyPartialUpdate
EV_NotifyPopulate(n) ==
    LET e == EV_Cleared
        r == EV_populate_listener_channels(e, e.listener_connections[n],
                                           e.listener_list_state[n], 1)
    IN
    /\ e.npc[n] = "populate"
    /\ IF r.ok
       THEN ev' = [e EXCEPT !.npc[n] = "write",
                            !.listener_connections[n] = r.connections]
       ELSE ev' = [e EXCEPT !.npc[n] = "idle",
                            !.listener_connections[n] = r.connections,
                            !.listener_list_state[n] = EV_NoSlots,
                            !.value[n] = 0,
                            !.returned = [port |-> n, call |-> "notify",
                                          result |-> "OnlyPartialUpdate",
                                          ids |-> <<>>, number |-> 0]]

\* notify_with_custom_trigger_id, lines 187-204: the loop over the
\* connections and Ok(number_of_triggered_listeners)
EV_NotifyWrite(n) ==
    LET e == EV_Cleared
        r == EV_notify_loop(e, e.listener_connections[n], e.value[n], 1, e.channel)
    IN
    /\ e.npc[n] = "write"
    /\ ev' = [e EXCEPT !.npc[n] = "idle",
                       !.channel = r.channel,
                       !.listener_list_state[n] = EV_NoSlots,
                       !.value[n] = 0,
                       !.returned = [port |-> n, call |-> "notify", result |-> "Ok",
                                     ids |-> <<>>,
                                     number |-> r.number_of_triggered_listeners]]

\* ------------------------------------------- Publisher and Subscriber
\* One publish-subscribe service with one subscriber (subscriber.rs) and the
\* publishers it connects to.  The publisher, the zero-copy connection and the
\* registries are modelled after the specification; the data segment is the
\* pool allocator.  A bucket is named by its offset (bucket size one); every
\* call of a port is one step.

Publishers == 1..NumPublishers

\* slots of the publisher registry and of publisher_connections
PS_Slots == 1..NumPublishers

PS_NoSlots == [i \in PS_Slots |-> 0]

\* samples a publisher may hold loaned at a time
PS_MaxLoanedSamples == 1

\* capacity of the submission and of the retrieve queue of a connection
PS_ConnectionCapacity == subscriber_max_buffer_size + subscriber_max_borrowed_samples

\* buckets of a publisher's data segment
PS_NumberOfBuckets ==
    NumPublishers * (subscriber_max_buffer_size + subscriber_max_borrowed_samples
                     + PS_MaxLoanedSamples)

PS_Offsets == 0..(PS_NumberOfBuckets - 1)

\* address ranges at which the subscriber may map a data segment
PS_Regions == 1..NumPublishers

\* data_segment.allocator_data_start_address() of a segment mapped at a region
PS_allocator_data_start_address(region) == region * 2 * PS_NumberOfBuckets

PS_New ==
    [ created               |-> FALSE,
      enable_safe_overflow  |-> FALSE,
      publishers            |-> PS_NoSlots,
      ppc                   |-> [p \in Publishers |-> "none"],
      pool                  |-> [p \in Publishers |-> {}],
      loaned                |-> [p \in Publishers |-> {}],
      sender                |-> [p \in Publishers |-> FALSE],
      submission            |-> [p \in Publishers |-> <<>>],
      retrieve              |-> [p \in Publishers |-> <<>>],
      borrow_counter        |-> [p \in Publishers |-> 0],
      spc                   |-> "none",
      degration_callback    |-> "None",   \* the action the installed callback returns
      subscribers           |-> {},
      other_subscribers     |-> 0,   \* registry slots held by other subscribers
      publisher_connections |-> PS_NoSlots,
      start                 |-> PS_NoSlots,
      samples               |-> <<>>,
      \* the slot the last sample was received from, and the publishers that
      \* had a sample pending for the subscriber in that call
      last_received         |-> 0,
      passed_over           |-> {},
      sends                 |-> 0,
      \* the last call: its result; the publishers its reconciliation could
      \* not have connected to, those it called the degradation callback for
      \* and those it warned about
      returned              |-> [port |-> 0, call |-> "none", result |-> "none",
                                 channel_id |-> 0, publisher |-> 0, offset |-> 0,
                                 failing |-> {}, callbacks |-> <<>>,
                                 warned |-> <<>>] ]

PS_Cleared == [ps EXCEPT !.returned = PS_New.returned]

PS_Min(S) == CHOOSE x \in S : \A y \in S : x <= y

PS_Range(q) == {q[i] : i \in 1..Len(q)}

\* the subscriber's id is in the subscriber registry
PS_SubscriberRegistered(e) == e.subscribers # {}

\* PoolAllocator::get_index: the bucket of an offset, -1 for None
PS_get_index(offset) == IF offset > PS_NumberOfBuckets THEN -1 ELSE offset

\* PoolAllocator::deallocate of every offset of a drained retrieve queue
PS_deallocate(pool, offsets) == pool \cup ({PS_get_index(o) : o \in offsets} \ {-1})

\* what a publisher does first in every operation: it drains the retrieve
\* queue into its pool and connects to the subscriber found in the registry
PS_reclaim(e, p) ==
    [e EXCEPT !.pool[p] = PS_deallocate(@, PS_Range(e.retrieve[p])),
              !.retrieve[p] = <<>>,
              !.sender[p] = PS_SubscriberRegistered(e)]

\* the service is created with or without safe overflow
PS_Create(overflow) ==
    /\ ~ps.created
    /\ ps' = [PS_Cleared EXCEPT !.created = TRUE, !.enable_safe_overflow = overflow]

\* a publisher joins: data segment, connections, then the registry slot
PS_PublisherNew(p) ==
    LET e == PS_Cleared
        slot == PS_Min({i \in PS_Slots : e.publishers[i] = 0})
    IN
    /\ e.created
    /\ e.ppc[p] = "none"
    /\ IF p = 1 THEN TRUE ELSE e.ppc[p - 1] # "none"
    /\ \E i \in PS_Slots : e.publishers[i] = 0
    /\ ps' = [e EXCEPT !.ppc[p] = "alive",
                       !.publishers[slot] = p,
                       !.pool[p] = PS_Offsets,
                       !.sender[p] = PS_SubscriberRegistered(e)]

\* Publisher::loan
PS_Loan(p) ==
    LET e == PS_reclaim(PS_Cleared, p)
        bucket == PS_Min(e.pool[p])
    IN
    /\ e.ppc[p] = "alive"
    /\ Cardinality(e.loaned[p]) < PS_MaxLoanedSamples
    /\ e.sends < MaxSends
    /\ IF e.pool[p] = {}
       THEN ps' = [e EXCEPT !.returned = [@ EXCEPT !.port = p, !.call = "loan",
                                                    !.result = "OutOfMemory"]]
       ELSE ps' = [e EXCEPT !.pool[p] = @ \ {bucket},
                            !.loaned[p] = @ \cup {bucket},
                            !.returned = [@ EXCEPT !.port = p, !.call = "loan",
                                                   !.result = "Ok",
                                                   !.offset = bucket]]

\* the submission queue after a push that found room; without room the
\* overflowing push replaces the oldest offset
PS_PushedQueue(queue, offset) ==
    IF Len(queue) < PS_ConnectionCapacity THEN Append(queue, offset)
    ELSE Append(Tail(queue), offset)

\* Publisher::send of the loaned sample with the given offset; a sample that
\* no connection accepted goes back to the pool
PS_Send(p, offset) ==
    LET e == PS_reclaim(PS_Cleared, p)
        full == Len(e.submission[p]) >= PS_ConnectionCapacity
        accepted == e.sender[p] /\ (~full \/ e.enable_safe_overflow)
        freed == IF ~accepted THEN {offset}
                 ELSE IF full THEN {Head(e.submission[p])}
                 ELSE {}
    IN
    /\ e.ppc[p] = "alive"
    /\ offset \in e.loaned[p]
    /\ ps' = [e EXCEPT !.loaned[p] = @ \ {offset},
                       !.submission[p] =
                           IF accepted THEN PS_PushedQueue(@, offset) ELSE @,
                       !.pool[p] = @ \cup freed,
                       !.sends = @ + 1,
                       !.returned = [@ EXCEPT !.port = p, !.call = "send",
                                              !.result = "Ok",
                                              !.offset = offset,
                                              !.channel_id = IF accepted THEN 1 ELSE 0]]

\* a publisher leaves: its registry slot is free again; the connection stays
\* as long as the subscriber has it open
PS_PublisherDrop(p) ==
    LET e == PS_Cleared
        open == \E i \in PS_Slots : e.publisher_connections[i] = p
    IN
    /\ e.ppc[p] = "alive"
    /\ e.loaned[p] = {}
    /\ ps' = [e EXCEPT !.ppc[p] = "dropped",
                       !.publishers = [i \in PS_Slots |-> IF @[i] = p THEN 0 ELSE @[i]],
                       !.pool[p] = {},
                       !.sender[p] = FALSE,
                       !.submission[p] = IF open THEN @ ELSE <<>>,
                       !.retrieve[p] = IF open THEN @ ELSE <<>>,
                       !.borrow_counter[p] = IF open THEN @ ELSE 0]

\* PublisherConnections::create: a slot that holds a connection keeps it
PS_create(connection, publisher_id) ==
    IF connection # 0 THEN connection ELSE publisher_id

\* the regions a reconciliation pass may map new data segments at: the
\* segments that are mapped stay where they are
PS_Mappings(e) ==
    {m \in [PS_Slots -> PS_Regions] :
        /\ \A i, j \in PS_Slots : i # j => m[i] # m[j]
        /\ \A i \in PS_Slots : e.publisher_connections[i] # 0 => m[i] = e.start[i]}

\* the actions a degradation callback returns; None: no callback is installed
PS_DegrationActions == {"None", "Ignore", "Warn", "Fail"}

PS_GoesOn_Always(action) == TRUE

\* populate_publisher_channels, lines 141-158: after a failed create the loop
\* goes on unless the callback returned Fail
PS_GoesOn(action) == action # "Fail"

\* populate_publisher_channels, lines 142-152: the failed create is warned
\* about without a callback and when the callback returned Warn
PS_Warns(action) == action \in {"None", "Warn"}

\* populate_publisher_channels, the loop of lines 135-161 from slot i on; the
\* connections to the publishers in failing cannot be opened.  r: the table,
\* the publishers the callback was called for and those warned about, and
\* whether the loop came to its end
RECURSIVE PS_populate_loop(_, _, _, _)
PS_populate_loop(e, failing, r, i) ==
    IF i > NumPublishers THEN r
    ELSE IF e.publishers[i] = 0
    THEN PS_populate_loop(e, failing, [r EXCEPT !.table[i] = 0], i + 1)
    ELSE IF r.table[i] = 0 /\ e.publishers[i] \in failing
    THEN LET action == e.degration_callback
             s == [r EXCEPT !.callbacks = IF action = "None" THEN @
                                          ELSE Append(@, e.publishers[i]),
                            !.warned = IF PS_Warns(action)
                                       THEN Append(@, e.publishers[i]) ELSE @]
         IN  IF PS_GoesOn(action)
             THEN PS_populate_loop(e, failing, s, i + 1)
             ELSE [s EXCEPT !.ok = FALSE]
    ELSE PS_populate_loop(
             e, failing, [r EXCEPT !.table[i] = PS_create(@, e.publishers[i])], i + 1)

\* Subscriber::populate_publisher_channels on the registry as it is now; a
\* pass that ended early has the result ConnectionFailure.  (The pass runs in
\* every call: publisher_list_state.update() lets the code skip it while the
\* registry is unchanged, where it would change nothing but for a connection
\* that failed before, and that one may fail again.)
PS_populate_publisher_channels(e, m, failing) ==
    LET r == PS_populate_loop(e, failing,
                              [table |-> e.publisher_connections, ok |-> TRUE,
                               callbacks |-> <<>>, warned |-> <<>>], 1)
        table == r.table
        closed == {p \in Publishers :
                     /\ \E i \in PS_Slots : e.publisher_connections[i] = p
                     /\ ~ \E i \in PS_Slots : table[i] = p}
    IN
    [e EXCEPT !.publisher_connections = table,
              !.start = [i \in PS_Slots |-> IF table[i] = 0 THEN 0 ELSE m[i]],
              !.submission = [p \in Publishers |-> IF p \in closed THEN <<>> ELSE @[p]],
              !.retrieve = [p \in Publishers |-> IF p \in closed THEN <<>> ELSE @[p]],
              !.borrow_counter = [p \in Publishers |-> IF p \in closed THEN 0 ELSE @[p]],
              !.returned = [@ EXCEPT !.result = IF r.ok THEN @ ELSE "ConnectionFailure",
                                     !.failing = failing,
                                     !.callbacks = r.callbacks,
                                     !.warned = r.warned]]

\* Subscriber::new, lines 51-85: the connections to the publishers found; the
\* new subscriber has no callback, a failure only warns
PS_SubscriberNewPopulate(failing) ==
    /\ ps.created
    /\ ps.spc = "none"
    /\ \E m \in PS_Mappings(ps) :
        ps' = [PS_populate_publisher_channels(
                   [PS_Cleared EXCEPT !.degration_callback = "None"], m, failing)
               EXCEPT !.spc = "populated"]

\* Subscriber::set_degration_callback
PS_SetDegrationCallback(action) ==
    /\ ps.spc = "alive"
    /\ ps.degration_callback # action
    /\ ps' = [PS_Cleared EXCEPT !.degration_callback = action]

\* add_subscriber_id finds a free slot of the subscriber registry
PS_add_subscriber_id(e) ==
    Cardinality(e.subscribers) + e.other_subscribers < max_subscribers

PS_NewResult_NeverExceeds(unique_index) == "Ok"

\* Subscriber::new, lines 86-101: the match on what add_subscriber_id returned
PS_NewResult(unique_index) ==
    IF unique_index THEN "Ok" ELSE "ExceedsMaxSupportedSubscribers"

\* every connection of the subscriber is closed
PS_remove_all(e) ==
    LET closed == {p \in Publishers : \E i \in PS_Slots : e.publisher_connections[i] = p}
    IN
    [e EXCEPT !.publisher_connections = PS_NoSlots,
              !.start = PS_NoSlots,
              !.submission = [p \in Publishers |-> IF p \in closed THEN <<>> ELSE @[p]],
              !.retrieve = [p \in Publishers |-> IF p \in closed THEN <<>> ELSE @[p]],
              !.borrow_counter = [p \in Publishers |-> IF p \in closed THEN 0 ELSE @[p]]]

\* Subscriber::new, lines 86-101: add_subscriber_id; without a free slot the
\* call fails at once and the new subscriber is given up with its connections
PS_SubscriberNewAddId ==
    LET e == PS_Cleared IN
    /\ e.spc = "populated"
    /\ IF PS_NewResult(PS_add_subscriber_id(e)) = "Ok"
       THEN ps' = [e EXCEPT !.spc = "alive", !.subscribers = {1}]
       ELSE ps' = [PS_remove_all(e) EXCEPT
                      !.spc = "none",
                      !.returned = [@ EXCEPT !.port = 1, !.call = "new",
                                             !.result = "ExceedsMaxSupportedSubscribers"]]

\* Drop for Subscriber, without samples borrowed: the guard of the registry
\* slot takes the id out, the connections are closed
PS_SubscriberDrop ==
    LET e == PS_Cleared IN
    /\ e.spc = "alive"
    /\ e.samples = <<>>
    /\ ps' = [PS_remove_all(e) EXCEPT
                  !.spc = "dropped",
                  !.subscribers = {},
                  !.returned = [@ EXCEPT !.port = 1, !.call = "drop", !.result = "Ok"]]

\* another subscriber takes a slot of the subscriber registry
PS_OtherSubscriberNew ==
    LET e == PS_Cleared IN
    /\ e.created
    /\ PS_add_subscriber_id(e)
    /\ ps' = [e EXCEPT !.other_subscribers = @ + 1]

\* another subscriber is dropped
PS_OtherSubscriberDrop ==
    LET e == PS_Cleared IN
    /\ e.other_subscribers > 0
    /\ ps' = [e EXCEPT !.other_subscribers = @ - 1]

\* Subscriber::update_connections
PS_UpdateConnections(failing) ==
    /\ ps.spc = "alive"
    /\ \E m \in PS_Mappings(ps) :
        ps' = [PS_populate_publisher_channels(PS_Cleared, m, failing)
               EXCEPT !.returned = [@ EXCEPT !.call = "update_connections",
                                             !.result = IF @ = "none" THEN "Ok" ELSE @]]

\* Subscriber::receive, the loop over the connections from slot id on, with
\* receive_from_connection; the receiver refuses at its borrow limit
RECURSIVE PS_receive_loop(_, _)
PS_receive_loop(e, id) ==
    IF id > NumPublishers
    THEN [e EXCEPT !.returned = [@ EXCEPT !.call = "receive", !.result = "None"]]
    ELSE LET p == e.publisher_connections[id] IN
         IF p = 0 THEN PS_receive_loop(e, id + 1)
         ELSE IF e.borrow_counter[p] >= subscriber_max_borrowed_samples
         THEN [e EXCEPT !.returned = [@ EXCEPT !.call = "receive",
                                               !.result = "ExceedsMaxBorrowedSamples",
                                               !.channel_id = id]]
         ELSE IF e.submission[p] = <<>> THEN PS_receive_loop(e, id + 1)
         ELSE [e EXCEPT !.submission[p] = Tail(@),
                        !.borrow_counter[p] = @ + 1,
                        !.last_received = id,
                        !.passed_over =
                            {e.publisher_connections[j] : j \in PS_Slots} \
                              ({0, p} \cup {q \in Publishers : e.submission[q] = <<>>}),
                        !.samples = Append(@,
                            [channel_id |-> id,
                             ptr |-> Head(e.submission[p])
                                     + PS_allocator_data_start_address(e.start[id]),
                             publisher |-> p,
                             offset |-> Head(e.submission[p])]),
                        !.returned = [@ EXCEPT !.call = "receive", !.result = "Some",
                                               !.channel_id = id, !.publisher = p,
                                               !.offset = Head(e.submission[p])]]

\* Subscriber::receive: update_connections, whose failure ends the call with
\* ReceiveError::ConnectionFailure, then the loop over the connections
PS_Receive(failing) ==
    /\ ps.spc = "alive"
    /\ \E m \in PS_Mappings(ps) :
        LET e == PS_populate_publisher_channels(PS_Cleared, m, failing)
        IN  ps' = IF e.returned.result = "ConnectionFailure"
                  THEN [e EXCEPT !.returned = [@ EXCEPT !.call = "receive"]]
                  ELSE PS_receive_loop(e, 1)

\* the connection release_sample hands the sample to: the one that is in the
\* sample's slot now
PS_ReleaseConnection(e, sample) == e.publisher_connections[sample.channel_id]

\* release_sample, lines 110-116: what receiver.release answers on a retrieve
\* queue that is full or not
PS_ReleaseOutcome_NeverFull(full) == "Ok"

PS_ReleaseOutcome(full) == IF full THEN "RetrieveBufferFull" ELSE "Ok"

\* Subscriber::release_sample of the k-th sample held, called by its drop;
\* the fatal panic ends the subscriber's process with the sample unreturned
PS_SampleDrop(k) ==
    LET e == PS_Cleared
        sample == e.samples[k]
        p == PS_ReleaseConnection(e, sample)
        distance == (sample.ptr
                     - PS_allocator_data_start_address(e.start[sample.channel_id]))
                    % (U64_MAX + 1)
        rest == SubSeq(e.samples, 1, k - 1) \o SubSeq(e.samples, k + 1, Len(e.samples))
    IN
    /\ e.spc = "alive"
    /\ k \in 1..Len(e.samples)
    /\ IF p = 0
       THEN ps' = [e EXCEPT !.samples = rest,
                            !.returned = [@ EXCEPT !.call = "release_sample",
                                                   !.result = "Discarded",
                                                   !.channel_id = sample.channel_id]]
       ELSE IF PS_ReleaseOutcome(Len(e.retrieve[p]) >= PS_ConnectionCapacity)
               = "RetrieveBufferFull"
       THEN ps' = [e EXCEPT !.spc = "panicked",
                            !.returned = [@ EXCEPT !.call = "release_sample",
                                                   !.result = "RetrieveBufferFull",
                                                   !.channel_id = sample.channel_id,
                                                   !.publisher = p]]
       ELSE ps' = [e EXCEPT !.samples = rest,
                            !.retrieve[p] = Append(@, distance),
                            !.borrow_counter[p] = IF @ > 0 THEN @ - 1 ELSE 0,
                            !.returned = [@ EXCEPT !.call = "release_sample",
                                                   !.result = "Ok",
                                                   !.channel_id = sample.channel_id,
                                                   !.publisher = p,
                                                   !.offset = distance]]

\* ---------------------------------------------------------- PoolAllocator

\* The allocator follows memory/pool_allocator.rs.  Its free buckets are kept
\* by the unique-index set of the specification's section 4.1: a stack of
\* free indices, acquire takes the top index and release puts an index on
\* top, each in one atomic step.

PA_Threads == 1..NumAllocatorThreads

\* new_uninit: bucket_size and bucket_alignment of the bucket layout
PA_bucket_size == 2
PA_bucket_alignment == PA_bucket_size

\* new_uninit: start, the aligned address of the memory, and its size
PA_start == 4 * PA_bucket_alignment
PA_size == NumBuckets * PA_bucket_size

\* math::align: value rounded up to a multiple of alignment
PA_align(value, alignment) ==
    ((value + alignment - 1) \div alignment) * alignment

\* calc_number_of_buckets, lines 133-138
PA_calc_number_of_buckets(bucket_layout, ptr, size) ==
    LET adjusted_start == PA_align(ptr, bucket_layout.align)
        bucket_size == PA_align(bucket_layout.size, bucket_layout.align)
    IN  (ptr + size - adjusted_start) \div bucket_size

\* new_uninit, lines 88-101: the allocator's fields; ptr and size are also
\* kept to tell the managed memory
PA_new_uninit(bucket_layout, ptr, size) ==
    [ number_of_buckets |-> PA_calc_number_of_buckets(bucket_layout, ptr, size),
      bucket_size       |-> bucket_layout.size,
      bucket_alignment  |-> bucket_layout.align,
      start             |-> PA_align(ptr, bucket_layout.align),
      size              |-> size,
      ptr               |-> ptr ]

\* the allocator of PA_New
PA_Default ==
    PA_new_uninit([size |-> PA_bucket_size, align |-> PA_bucket_alignment],
                  PA_start, PA_size)

\* allocate, lines 166-170: the address of the bucket with index v
PA_bucket_address(allocator, v) == allocator.start + v * allocator.bucket_size

\* the layouts passed to allocate: some fit a bucket, some do not
PA_Layouts ==
    [size : {PA_bucket_size - 1, PA_bucket_size, PA_bucket_size + 1},
     align : {PA_bucket_alignment, 2 * PA_bucket_alignment}]

\* UniqueIndexSet::acquire_raw_index: the top of the stack of free indices,
\* -1 for None
PA_acquire_raw_index(free) ==
    IF free = <<>> THEN [index |-> -1, free |-> free]
    ELSE [index |-> Head(free), free |-> Tail(free)]

\* UniqueIndexSet::release_raw_index
PA_release_raw_index(free, index) == <<index>> \o free

PA_get_index_IgnoresStart(allocator, position) ==
    position \div allocator.bucket_size

\* get_index: the bucket of an address, -1 for None
PA_get_index(allocator, position) ==
    IF position < allocator.start \/ position > allocator.start + allocator.size
    THEN -1
    ELSE (position - allocator.start) \div allocator.bucket_size

\* new_uninit and init of the allocator: every bucket is free
PA_init(allocator) ==
    [ allocator |-> allocator,
      free     |-> [i \in 1..allocator.number_of_buckets |-> i - 1],
      held     |-> [t \in PA_Threads |-> {}],   \* addresses t got and has not given back
      returned |-> [thread |-> 0, call |-> "none", result |-> "none", address |-> 0] ]

PA_New == PA_init(PA_Default)

\* the last call's result lasts one step
PA_Cleared == [pa EXCEPT !.returned = PA_New.returned]

\* the addresses handed out and not yet given back
PA_Outstanding(a) == UNION {a.held[t] : t \in PA_Threads}

\* allocate, lines 151-177
PA_Allocate(t, layout) ==
    LET a == PA_Cleared
        r == PA_acquire_raw_index(a.free)
    IN  pa' =
          IF layout.size > a.allocator.bucket_size
          THEN [a EXCEPT !.returned = [thread |-> t, call |-> "allocate",
                                       result |-> "SizeTooLarge", address |-> 0]]
          ELSE IF layout.align > a.allocator.bucket_alignment
          THEN [a EXCEPT !.returned = [thread |-> t, call |-> "allocate",
                                       result |-> "AlignmentFailure", address |-> 0]]
          ELSE IF r.index # -1
          THEN [a EXCEPT !.free = r.free,
                         !.held[t] = @ \cup {PA_bucket_address(a.allocator, r.index)},
                         !.returned = [thread |-> t, call |-> "allocate",
                                       result |-> "Ok",
                                       address |->
                                           PA_bucket_address(a.allocator, r.index)]]
          ELSE [a EXCEPT !.returned = [thread |-> t, call |-> "allocate",
                                       result |-> "OutOfMemory", address |-> 0]]

\* deallocate, lines 179-197
PA_deallocate(a, t, ptr) ==
    LET index == PA_get_index(a.allocator, ptr)
    IN  IF index # -1
        THEN [a EXCEPT !.free = PA_release_raw_index(@, index),
                       !.held[t] = @ \ {ptr},
                       !.returned = [thread |-> t, call |-> "deallocate",
                                     result |-> "Ok", address |-> ptr]]
        ELSE [a EXCEPT !.returned =
                  [thread |-> t, call |-> "deallocate",
                   result |-> "ProvidedPointerNotContainedInAllocator",
                   address |-> ptr]]

\* deallocate of an address the thread got from allocate
PA_Deallocate(t, ptr) ==
    /\ ptr \in pa.held[t]
    /\ pa' = PA_deallocate(PA_Cleared, t, ptr)

\* the addresses of the bucket with index v
PA_Bucket(allocator, v) ==
    { p \in 0..(allocator.ptr + allocator.size + allocator.bucket_size) :
        /\ PA_bucket_address(allocator, v) <= p
        /\ p < PA_bucket_address(allocator, v) + allocator.bucket_size }

\* the addresses that lie in one of the buckets
PA_InBuckets(allocator) ==
    UNION { PA_Bucket(allocator, v) : v \in 0..(allocator.number_of_buckets - 1) }

\* the managed memory, new_uninit's ptr and size
PA_Memory(allocator) == allocator.ptr..(allocator.ptr + allocator.size - 1)

\* the pointers a caller hands to deallocate: around the managed memory
PA_Pointers(allocator) ==
    (allocator.ptr - 1)..(allocator.ptr + allocator.size + allocator.bucket_size)

\* deallocate of an address that lies in none of the buckets; the index set
\* is followed up to one index more than the allocator has buckets
PA_DeallocateOutside(t, ptr) ==
    /\ ptr \notin PA_InBuckets(pa.allocator)
    /\ Len(pa.free) + Cardinality(PA_Outstanding(pa)) <= pa.allocator.number_of_buckets
    /\ pa' = PA_deallocate(PA_Cleared, t, ptr)

\* the allocators of the specifications PL and PD: bucket layouts whose
\* size is or is not a multiple of the alignment, an aligned and an
\* unaligned ptr, memory for one to four buckets
PL_Allocators ==
    { PA_new_uninit([size |-> s, align |-> al], p, m) :
        s \in {PA_bucket_size, PA_bucket_size + 1},
        al \in {1, PA_bucket_alignment},
        p \in {PA_start, PA_start + 1},
        m \in {NumBuckets * PA_bucket_size, NumBuckets * (PA_bucket_size + 1)} }

\* ------------------------------------------------- event service, open

\* The builder of the event service is that of the specification's sections
\* 4.3 and 6: create stores max_notifiers and max_listeners in the static
\* config, open compares them with what the opener requires.  A requirement
\* of 0 stands for a value the opener did not set.

SC_Capacities == 1..MaxRequested
SC_Requirements == 0..MaxRequested

SC_verify_NoCheck(existing_notifiers, existing_listeners, notifiers, listeners) ==
    "Ok"

\* open, step 2: the created capacities against the opener's requirements
SC_verify(existing_notifiers, existing_listeners, notifiers, listeners) ==
    IF existing_notifiers < notifiers
    THEN "DoesNotSupportRequestedAmountOfNotifiers"
    ELSE IF existing_listeners < listeners
    THEN "DoesNotSupportRequestedAmountOfListeners"
    ELSE "Ok"

SC_New ==
    [ created       |-> FALSE,
      max_notifiers |-> 0,
      max_listeners |-> 0,
      handles       |-> 0,     \* handles of the service that are alive
      returned      |-> [call |-> "none", result |-> "none",
                         notifiers |-> 0, listeners |-> 0] ]

\* the last call's result lasts one step
SC_Cleared == [sc EXCEPT !.returned = SC_New.returned]

\* create with max_notifiers and max_listeners
SC_Create(notifiers, listeners) ==
    LET s == SC_Cleared
    IN  sc' = IF s.created
              THEN [s EXCEPT !.returned = [call |-> "create", result |-> "AlreadyExists",
                                           notifiers |-> notifiers,
                                           listeners |-> listeners]]
              ELSE [s EXCEPT !.created = TRUE,
                             !.max_notifiers = notifiers,
                             !.max_listeners = listeners,
                             !.handles = 1,
                             !.returned = [call |-> "create", result |-> "Ok",
                                           notifiers |-> notifiers,
                                           listeners |-> listeners]]

\* open with the requirements notifiers and listeners
SC_Open(notifiers, listeners) ==
    LET s == SC_Cleared
        result == IF ~s.created THEN "DoesNotExist"
                  ELSE SC_verify(s.max_notifiers, s.max_listeners, notifiers, listeners)
    IN  /\ s.handles < NumServiceUsers
        /\ sc' = [s EXCEPT !.handles = IF result = "Ok" THEN @ + 1 ELSE @,
                           !.returned = [call |-> "open", result |-> result,
                                         notifiers |-> notifiers,
                                         listeners |-> listeners]]

\* drop of a handle; the last one removes the service
SC_Drop ==
    LET s == SC_Cleared
    IN  /\ s.handles > 0
        /\ sc' = IF s.handles = 1
                 THEN [SC_New EXCEPT !.returned.call = "drop"]
                 ELSE [s EXCEPT !.handles = @ - 1, !.returned.call = "drop"]

\* ------------------------------------------------------ FileReferenceSet
\* The set of files of one shared memory directory (file_reference_set.rs)
\* and the threads that create, open, remove and drop files (file.rs).  The
\* files are not persistent.  insert, to_be_removed, borrow and release are
\* one step each; a file that is created is inserted in one step and its
\* initialization is finalized in another.  The reference counter and the
\* decision counter of an entry are not in src/: an entry exists while its
\* counter is above zero, and the older decision wins.

FS_Threads == 1..NumFileThreads

FS_Names == 1..NumFileNames

FS_Ids == 0..(MAX_NUMBER_OF_ENTRIES - 1)

\* FileReferenceSet::default: every entry "empty" (0), counters zero, every
\* index free
FS_New ==
    [ entries        |-> [i \in FS_Ids |-> 0],        \* name of the entry
      counter        |-> [i \in FS_Ids |-> 0],        \* reference counter: the count
      initialized    |-> [i \in FS_Ids |-> FALSE],    \* reference counter: initialized bit
      removed        |-> [i \in FS_Ids |-> FALSE],    \* reference counter: to_be_removed
      decision_counter |-> [i \in FS_Ids |-> -1],     \* -1: undecided
      ids            |-> [i \in 1..MAX_NUMBER_OF_ENTRIES |-> i - 1],  \* the free indices
      global_decision_counter |-> 0,
      tpc            |-> [t \in FS_Threads |-> "idle"],
      tid            |-> [t \in FS_Threads |-> -1],   \* the entry of the thread's File
      returned       |-> [thread |-> 0, call |-> "none", result |-> "none", name |-> 0] ]

\* the last call's result lasts one step
FS_Cleared == [fs EXCEPT !.returned = FS_New.returned]

\* decrement_ref_counter, lines 225-232: the last reference removes the entry
FS_decrement_ref_counter(f, id) ==
    IF f.counter[id] = 1
    THEN [f EXCEPT !.counter[id] = 0,
                   !.initialized[id] = FALSE,
                   !.removed[id] = FALSE,
                   !.decision_counter[id] = -1,
                   !.ids = <<id>> \o @]
    ELSE [f EXCEPT !.counter[id] = @ - 1]

\* DecisionCounter::does_value_win of entry i: the older decision wins
FS_does_value_win(f, i, value) ==
    f.decision_counter[i] = -1 \/ value < f.decision_counter[i]

\* insert, lines 93-116: the check for duplicates from entry i on
RECURSIVE FS_check_duplicates(_, _, _, _, _)
FS_check_duplicates(f, id, name, current_decision_count, i) ==
    IF i = MAX_NUMBER_OF_ENTRIES THEN [set |-> f, result |-> "Ok"]
    ELSE IF i = id \/ f.counter[i] = 0
    THEN FS_check_duplicates(f, id, name, current_decision_count, i + 1)
    ELSE LET g == [f EXCEPT !.counter[i] = @ + 1]
         IN  IF g.entries[i] = name
                  /\ ~ FS_does_value_win(g, i, current_decision_count)
             THEN [set |-> g,
                   result |-> IF g.initialized[i] THEN "DoesExist" ELSE "BeingCreated"]
             ELSE FS_check_duplicates(FS_decrement_ref_counter(g, i), id, name,
                                      current_decision_count, i + 1)

\* insert, lines 66-118
FS_insert(f, name) ==
    IF f.ids = <<>>
    THEN [set |-> f, result |-> "FileLimitExceeded", id |-> -1]
    ELSE LET id == Head(f.ids)
             current_decision_count == f.global_decision_counter
             g == [f EXCEPT !.ids = Tail(@),
                            !.entries[id] = name,
                            !.counter[id] = @ + 1,
                            !.global_decision_counter = @ + 1]
         IN  IF g.decision_counter[id] # -1
             THEN [set |-> g, result |-> "DoesExist", id |-> -1]
             ELSE LET r == FS_check_duplicates(
                               [g EXCEPT !.decision_counter[id] = current_decision_count],
                               id, name, current_decision_count, 0)
                  IN  [set |-> r.set, result |-> r.result,
                       id |-> IF r.result = "Ok" THEN id ELSE -1]

\* find_entry, lines 212-223, from entry id on: the reference counter of the
\* entry found stays incremented
RECURSIVE FS_find_entry(_, _, _)
FS_find_entry(f, name, id) ==
    IF id = MAX_NUMBER_OF_ENTRIES THEN -1
    ELSE IF f.counter[id] > 0 /\ f.initialized[id] /\ ~ f.removed[id]
              /\ f.entries[id] = name
    THEN id
    ELSE FS_find_entry(f, name, id + 1)

\* FileCreator::create, lines 87-93: insert
FS_CreateInsert(t, name) ==
    LET f == FS_Cleared
        r == FS_insert(f, name)
    IN
    /\ f.tpc[t] = "idle"
    /\ f.global_decision_counter < MaxInserts
    /\ fs' = IF r.result = "Ok"
             THEN [r.set EXCEPT !.tpc[t] = "initializing",
                                !.tid[t] = r.id,
                                !.returned = [thread |-> t, call |-> "insert",
                                              result |-> "Ok", name |-> name]]
             ELSE [r.set EXCEPT !.returned = [thread |-> t, call |-> "insert",
                                              result |-> r.result, name |-> name]]

\* FileCreator::create, lines 95-105: the initializer, finalize_initialization
FS_CreateFinalize(t) ==
    LET f == FS_Cleared IN
    /\ f.tpc[t] = "initializing"
    /\ fs' = [f EXCEPT !.tpc[t] = "holding",
                       !.initialized[f.tid[t]] = TRUE,
                       !.returned = [thread |-> t, call |-> "create",
                                     result |-> "Ok", name |-> f.entries[f.tid[t]]]]

\* SharedMemoryDirectory::open_file, borrow: lines 146-152
FS_OpenFile(t, name) ==
    LET f == FS_Cleared
        id == FS_find_entry(f, name, 0)
    IN
    /\ f.tpc[t] = "idle"
    /\ fs' = IF id # -1
             THEN [f EXCEPT !.counter[id] = @ + 1,
                            !.tpc[t] = "holding",
                            !.tid[t] = id,
                            !.returned = [thread |-> t, call |-> "open_file",
                                          result |-> "Some", name |-> name]]
             ELSE [f EXCEPT !.returned = [thread |-> t, call |-> "open_file",
                                          result |-> "None", name |-> name]]

\* Drop for File: release, lines 154-157
FS_FileDrop(t) ==
    LET f == FS_Cleared IN
    /\ f.tpc[t] = "holding"
    /\ fs' = [FS_decrement_ref_counter(f, f.tid[t])
              EXCEPT !.tpc[t] = "idle",
                     !.tid[t] = -1,
                     !.returned = [thread |-> t, call |-> "drop",
                                   result |-> "Ok", name |-> f.entries[f.tid[t]]]]

\* SharedMemoryDirectory::remove_file, to_be_removed: lines 121-130
FS_RemoveFile(t, name) ==
    LET f == FS_Cleared
        id == FS_find_entry(f, name, 0)
    IN
    /\ fs' = IF id # -1
             THEN [FS_decrement_ref_counter(
                       [f EXCEPT !.counter[id] = @ + 1, !.removed[id] = TRUE], id)
                   EXCEPT !.returned = [thread |-> t, call |-> "remove_file",
                                        result |-> "true", name |-> name]]
             ELSE [f EXCEPT !.returned = [thread |-> t, call |-> "remove_file",
                                          result |-> "false", name |-> name]]

\* --------------------------------------------------------- LazySingleton
\* One LazySingleton (lazy_singleton.rs) and the threads that call set_value,
\* each at most once and with its own number as the value, and get.  One
\* action per atomic operation; the write of the value takes two steps, and
\* between them the data is neither None nor the value.  A thread that
\* panicked makes no further call.

LS_Threads == 1..NumSingletonThreads

\* LazySingleton::new; data: 0 for None, -1 while the value is being written
LS_New ==
    [ data           |-> 0,
      is_initialized |-> FALSE,
      is_finalized   |-> FALSE,
      pc             |-> [t \in LS_Threads |-> "idle"],
      set_value      |-> [t \in LS_Threads |-> "none"],  \* result of t's set_value
      returned       |-> [thread |-> 0, call |-> "none", result |-> "none", value |-> 0] ]

\* the last call's result lasts one step
LS_Cleared == [ls EXCEPT !.returned = LS_New.returned]

\* set_value, lines 57-64: is_initialized.compare_exchange(false, true)
LS_SetValueCompareExchange(t) ==
    LET s == LS_Cleared IN
    /\ s.pc[t] = "idle"
    /\ s.set_value[t] = "none"
    /\ ls' = IF s.is_initialized
             THEN [s EXCEPT !.set_value[t] = "false",
                            !.returned = [thread |-> t, call |-> "set_value",
                                          result |-> "false", value |-> t]]
             ELSE [s EXCEPT !.is_initialized = TRUE,
                            !.set_value[t] = "running",
                            !.pc[t] = "write"]

\* set_value, line 66: *self.data.get() = Some(value), the write begins
LS_SetValueWriteBegins(t) ==
    LET s == LS_Cleared IN
    /\ s.pc[t] = "write"
    /\ ls' = [s EXCEPT !.data = -1, !.pc[t] = "written"]

\* set_value, line 66: the write is complete
LS_SetValueWriteEnds(t) ==
    LET s == LS_Cleared IN
    /\ s.pc[t] = "written"
    /\ ls' = [s EXCEPT !.data = t, !.pc[t] = "store"]

\* set_value, lines 67-68: is_finalized.store(true, Release); true
LS_SetValueStore(t) ==
    LET s == LS_Cleared IN
    /\ s.pc[t] = "store"
    /\ ls' = [s EXCEPT !.is_finalized = TRUE,
                       !.pc[t] = "idle",
                       !.set_value[t] = "true",
                       !.returned = [thread |-> t, call |-> "set_value",
                                     result |-> "true", value |-> t]]

\* get, lines 73-76: is_finalized.load(Acquire)
LS_GetLoadFinalized(t) ==
    LET s == LS_Cleared IN
    /\ s.pc[t] = "idle"
    /\ ls' = [s EXCEPT !.pc[t] = IF s.is_finalized THEN "read"
                                 ELSE "load_initialized"]

\* get, lines 78-80: panics if is_initialized.load(Relaxed) is false
LS_GetLoadInitialized(t) ==
    LET s == LS_Cleared IN
    /\ s.pc[t] = "load_initialized"
    /\ ls' = IF s.is_initialized
             THEN [s EXCEPT !.pc[t] = "spin"]
             ELSE [s EXCEPT !.pc[t] = "panicked",
                            !.returned = [thread |-> t, call |-> "get",
                                          result |-> "panic", value |-> 0]]

LS_SpinEnds_AtOnce(is_finalized) == TRUE

\* get, lines 82-84: while !self.is_finalized.load(Acquire) { spin_loop() }
LS_SpinEnds(is_finalized) == is_finalized

\* get, lines 82-84: the load that ends the loop
LS_GetSpin(t) ==
    LET s == LS_Cleared IN
    /\ s.pc[t] = "spin"
    /\ LS_SpinEnds(s.is_finalized)
    /\ ls' = [s EXCEPT !.pc[t] = "read"]

\* get, lines 75 and 85: the reference to the value in data
LS_GetRead(t) ==
    LET s == LS_Cleared IN
    /\ s.pc[t] = "read"
    /\ ls' = [s EXCEPT !.pc[t] = "idle",
                       !.returned = [thread |-> t, call |-> "get",
                                     result |-> "value", value |-> s.data]]

\* ----------------------------------------------------- OneChunkAllocator
\* One OneChunkAllocator (one_chunk_allocator.rs) and the threads that call
\* allocate and deallocate.  allocate is two steps, the checks with the load
\* of allocated_chunk_start and the store; deallocate is one step.

OC_Threads == 1..NumChunkThreads

\* the layouts allocate is called with
OC_Layouts == [size : 1..4, align : {1, 2, 4}]

\* OneChunkAllocator::new, lines 49-55
OC_new(ptr, size) ==
    [ start    |-> ptr,
      size     |-> size,
      allocated_chunk_start |-> 0,
      pc       |-> [t \in OC_Threads |-> "idle"],
      layout   |-> [t \in OC_Threads |-> [size |-> 0, align |-> 0]],  \* allocate's argument
      adjusted_start |-> [t \in OC_Threads |-> 0],   \* allocate's local
      available_size |-> [t \in OC_Threads |-> 0],   \* allocate's local
      held     |-> [t \in OC_Threads |-> 0],         \* the chunk t got and has not given back
      returned |-> [thread |-> 0, call |-> "none", result |-> "none",
                    address |-> 0, size |-> 0] ]

\* the allocator the other specifications leave alone
OC_New == OC_new(PA_start, PA_size)

\* the allocators of the specification OC: an aligned and an unaligned
\* start, memory shorter and longer than the greatest alignment
OC_Allocators ==
    { OC_new(ptr, size) : ptr \in {PA_start, PA_start + 1}, size \in {2, 4} }

\* the last call's result lasts one step
OC_Cleared == [oc EXCEPT !.returned = OC_New.returned]

\* allocate, line 88: self.size - (adjusted_start - self.start) in usize; a
\* difference below zero panics in a build with overflow checks (-1) and
\* wraps around in a build without
OC_available_size(size, start, adjusted_start) ==
    IF adjusted_start - start <= size
    THEN {size - (adjusted_start - start)}
    ELSE {-1, size - (adjusted_start - start) + U64_MAX + 1}

\* allocate, line 89: the chunk is refused
OC_Insufficient(available_size, size) == available_size <= size

\* allocate, lines 79-92: the checks
OC_AllocateCheck(t, layout) ==
    LET a == OC_Cleared
        adjusted_start == PA_align(a.start, layout.align)
    IN
    /\ a.pc[t] = "idle"
    /\ a.held[t] = 0
    /\ IF a.allocated_chunk_start # 0
       THEN oc' = [a EXCEPT !.layout[t] = layout,
                            !.returned = [thread |-> t, call |-> "allocate",
                                          result |-> "OutOfMemory",
                                          address |-> 0, size |-> 0]]
       ELSE \E available_size \in OC_available_size(a.size, a.start, adjusted_start) :
              oc' = IF available_size = -1
                    THEN [a EXCEPT !.layout[t] = layout,
                                   !.pc[t] = "panicked",
                                   !.returned = [thread |-> t, call |-> "allocate",
                                                 result |-> "panic",
                                                 address |-> 0, size |-> 0]]
                    ELSE IF OC_Insufficient(available_size, layout.size)
                    THEN [a EXCEPT !.layout[t] = layout,
                                   !.returned = [thread |-> t, call |-> "allocate",
                                                 result |-> "OutOfMemory",
                                                 address |-> 0, size |-> 0]]
                    ELSE [a EXCEPT !.layout[t] = layout,
                                   !.pc[t] = "store",
                                   !.adjusted_start[t] = adjusted_start,
                                   !.available_size[t] = available_size]

\* allocate, lines 94-99: allocated_chunk_start.store(adjusted_start); Ok
OC_AllocateStore(t) ==
    LET a == OC_Cleared IN
    /\ a.pc[t] = "store"
    /\ oc' = [a EXCEPT !.allocated_chunk_start = a.adjusted_start[t],
                       !.pc[t] = "idle",
                       !.held[t] = a.adjusted_start[t],
                       !.returned = [thread |-> t, call |-> "allocate",
                                     result |-> "Ok",
                                     address |-> a.adjusted_start[t],
                                     size |-> a.available_size[t]]]

\* deallocate, lines 102-117, with the chunk of the thread or another pointer
OC_Deallocate(t, ptr) ==
    LET a == OC_Cleared IN
    /\ a.pc[t] = "idle"
    /\ oc' = IF ptr = a.allocated_chunk_start
             THEN [a EXCEPT !.allocated_chunk_start = 0,
                            !.held[t] = IF @ = ptr THEN 0 ELSE @,
                            !.returned = [thread |-> t, call |-> "deallocate",
                                          result |-> "Ok",
                                          address |-> ptr, size |-> 0]]
             ELSE [a EXCEPT !.returned =
                       [thread |-> t, call |-> "deallocate",
                        result |-> "ProvidedPointerNotContainedInAllocator",
                        address |-> ptr, size |-> 0]]

\* the pointers deallocate is called with
OC_Pointers(a) == (a.start - 1)..(a.start + a.size)

\* ------------------------------------------------------ specifications

IQ_Init ==
    /\ iq = IQ_New
    /\ soq = SOQ_New
    /\ rc = RC_New
    /\ ss = SS_New
    /\ svc = Svc_New
    /\ gd = GD_New
    /\ ev = EV_New
    /\ ps = PS_New
    /\ pa = PA_New
    /\ sc = SC_New
    /\ fs = FS_New
    /\ ls = LS_New
    /\ oc = OC_New

IQ_Others == <<soq, rc, ss, svc, gd, ev, ps, pa, sc, fs, ls, oc>>

IQ_Next ==
    \/ IQ_PushLoadWritePosition /\ UNCHANGED IQ_Others
    \/ IQ_PushLoadReadPosition /\ UNCHANGED IQ_Others
    \/ IQ_PushWrite /\ UNCHANGED IQ_Others
    \/ IQ_PushStore /\ UNCHANGED IQ_Others
    \/ IQ_PopLoadReadPosition /\ UNCHANGED IQ_Others
    \/ IQ_PopLoadWritePosition /\ UNCHANGED IQ_Others
    \/ IQ_PopRead /\ UNCHANGED IQ_Others
    \/ IQ_PopStore /\ UNCHANGED IQ_Others

SpecIQ == IQ_Init /\ [][IQ_Next]_vars

SOQ_Init == IQ_Init

SOQ_Others == <<iq, rc, ss, svc, gd, ev, ps, pa, sc, fs, ls, oc>>

SOQ_Next ==
    \/ SOQ_PushLoadWritePosition /\ UNCHANGED SOQ_Others
    \/ SOQ_PushLoadReadPosition /\ UNCHANGED SOQ_Others
    \/ SOQ_PushWrite /\ UNCHANGED SOQ_Others
    \/ SOQ_PushStore /\ UNCHANGED SOQ_Others
    \/ SOQ_PushCompareExchange /\ UNCHANGED SOQ_Others
    \/ SOQ_PushReadEvicted /\ UNCHANGED SOQ_Others
    \/ SOQ_PopLoadReadPosition /\ UNCHANGED SOQ_Others
    \/ SOQ_PopLoadWritePosition /\ UNCHANGED SOQ_Others
    \/ SOQ_PopRead /\ UNCHANGED SOQ_Others
    \/ SOQ_PopCompareExchange_Step /\ UNCHANGED SOQ_Others

SpecSOQ == SOQ_Init /\ [][SOQ_Next]_vars

FS_Init == IQ_Init

FS_Others == <<iq, soq, rc, ss, svc, gd, ev, ps, pa, sc, ls, oc>>

FS_Next ==
    \E t \in FS_Threads :
        \/ \E name \in FS_Names : FS_CreateInsert(t, name) /\ UNCHANGED FS_Others
        \/ FS_CreateFinalize(t) /\ UNCHANGED FS_Others
        \/ \E name \in FS_Names : FS_OpenFile(t, name) /\ UNCHANGED FS_Others
        \/ FS_FileDrop(t) /\ UNCHANGED FS_Others
        \/ \E name \in FS_Names : FS_RemoveFile(t, name) /\ UNCHANGED FS_Others

SpecFS == FS_Init /\ [][FS_Next]_vars

LS_Init == IQ_Init

LS_Others == <<iq, soq, rc, ss, svc, gd, ev, ps, pa, sc, fs, oc>>

LS_Next ==
    \E t \in LS_Threads :
        \/ LS_SetValueCompareExchange(t) /\ UNCHANGED LS_Others
        \/ LS_SetValueWriteBegins(t) /\ UNCHANGED LS_Others
        \/ LS_SetValueWriteEnds(t) /\ UNCHANGED LS_Others
        \/ LS_SetValueStore(t) /\ UNCHANGED LS_Others
        \/ LS_GetLoadFinalized(t) /\ UNCHANGED LS_Others
        \/ LS_GetLoadInitialized(t) /\ UNCHANGED LS_Others
        \/ LS_GetSpin(t) /\ UNCHANGED LS_Others
        \/ LS_GetRead(t) /\ UNCHANGED LS_Others

SpecLS == LS_Init /\ [][LS_Next]_vars

\* one-chunk allocators of several sizes
OC_Init ==
    /\ oc \in OC_Allocators
    /\ iq = IQ_New /\ soq = SOQ_New /\ rc = RC_New /\ ss = SS_New
    /\ svc = Svc_New /\ gd = GD_New /\ ev = EV_New /\ ps = PS_New
    /\ pa = PA_New /\ sc = SC_New /\ fs = FS_New /\ ls = LS_New

OC_Others == <<iq, soq, rc, ss, svc, gd, ev, ps, pa, sc, fs, ls>>

OC_Next ==
    \E t \in OC_Threads :
        \/ \E layout \in OC_Layouts : OC_AllocateCheck(t, layout) /\ UNCHANGED OC_Others
        \/ OC_AllocateStore(t) /\ UNCHANGED OC_Others
        \/ \E ptr \in OC_Pointers(oc) : OC_Deallocate(t, ptr) /\ UNCHANGED OC_Others

SpecOC == OC_Init /\ [][OC_Next]_vars

Q_Init == IQ_Init

\* the calls of the producer and of the consumer of the plain queue, and of
\* the safely-overflowing queue; a run uses one of the two queues
Q_IndexQueuePush ==
    /\ soq = SOQ_New
    /\ \/ IQ_PushLoadWritePosition /\ UNCHANGED IQ_Others
       \/ IQ_PushLoadReadPosition /\ UNCHANGED IQ_Others
       \/ IQ_PushWrite /\ UNCHANGED IQ_Others
       \/ IQ_PushStore /\ UNCHANGED IQ_Others

Q_IndexQueuePop ==
    /\ soq = SOQ_New
    /\ \/ IQ_PopLoadReadPosition /\ UNCHANGED IQ_Others
       \/ IQ_PopLoadWritePosition /\ UNCHANGED IQ_Others
       \/ IQ_PopRead /\ UNCHANGED IQ_Others
       \/ IQ_PopStore /\ UNCHANGED IQ_Others

Q_OverflowingPush ==
    /\ iq = IQ_New
    /\ \/ SOQ_PushLoadWritePosition /\ UNCHANGED SOQ_Others
       \/ SOQ_PushLoadReadPosition /\ UNCHANGED SOQ_Others
       \/ SOQ_PushWrite /\ UNCHANGED SOQ_Others
       \/ SOQ_PushStore /\ UNCHANGED SOQ_Others
       \/ SOQ_PushCompareExchange /\ UNCHANGED SOQ_Others
       \/ SOQ_PushReadEvicted /\ UNCHANGED SOQ_Others

Q_OverflowingPop ==
    /\ iq = IQ_New
    /\ \/ SOQ_PopLoadReadPosition /\ UNCHANGED SOQ_Others
       \/ SOQ_PopLoadWritePosition /\ UNCHANGED SOQ_Others
       \/ SOQ_PopRead /\ UNCHANGED SOQ_Others
       \/ SOQ_PopCompareExchange_Step /\ UNCHANGED SOQ_Others

Q_Next ==
    \/ Q_IndexQueuePush
    \/ Q_IndexQueuePop
    \/ Q_OverflowingPush
    \/ Q_OverflowingPop

SpecQ == Q_Init /\ [][Q_Next]_vars

\* a thread that is in a call goes on with it
FairSpecQ ==
    /\ SpecQ
    /\ WF_vars(Q_IndexQueuePush) /\ WF_vars(Q_IndexQueuePop)
    /\ WF_vars(Q_OverflowingPush) /\ WF_vars(Q_OverflowingPop)

RC_Init == IQ_Init

RC_Others == <<iq, soq, ss, svc, gd, ev, ps, pa, sc, fs, ls, oc>>

RC_Next ==
    \E p \in Processes :
        \/ RC_IncrementLoad(p) /\ UNCHANGED RC_Others
        \/ RC_IncrementLoop(p) /\ UNCHANGED RC_Others
        \/ RC_DecrementLoad(p) /\ UNCHANGED RC_Others
        \/ RC_DecrementLoop(p) /\ UNCHANGED RC_Others

SpecRC == RC_Init /\ [][RC_Next]_vars

\* the calls of SpecRC, and decrement calls in any number and order once the
\* counter is marked
RCM_Next ==
    \/ RC_Next
    \/ \E p \in Processes : RC_DecrementLoadMarked(p) /\ UNCHANGED RC_Others

SpecRCM == RC_Init /\ [][RCM_Next]_vars

SS_Init == IQ_Init

SS_Others == <<iq, soq, rc, svc, gd, ev, ps, pa, sc, fs, ls, oc>>

SS_Next ==
    \E p \in StorageUsers :
        \/ SS_CreateLocked(p) /\ UNCHANGED SS_Others
        \/ SS_UnlockWrite(p) /\ UNCHANGED SS_Others
        \/ SS_UnlockWriteReturns(p) /\ UNCHANGED SS_Others
        \/ SS_UnlockSetPermission(p) /\ UNCHANGED SS_Others
        \/ SS_Drop(p) /\ UNCHANGED SS_Others
        \/ SS_OpenExisting(p) /\ UNCHANGED SS_Others
        \/ SS_OpenMetadata(p) /\ UNCHANGED SS_Others

SpecSS == SS_Init /\ [][SS_Next]_vars

Svc_Init == IQ_Init

Svc_Others == <<iq, soq, rc, ss, gd, ev, ps, pa, sc, fs, ls, oc>>

\* processes create, open and drop the service
Svc_Next ==
    \E p \in ServiceUsers :
        \/ Svc_Call(p) /\ UNCHANGED Svc_Others
        \/ Svc_OpenStatic(p) /\ UNCHANGED Svc_Others
        \/ Svc_OpenMetadata(p) /\ UNCHANGED Svc_Others
        \/ Svc_OpenDynamic(p) /\ UNCHANGED Svc_Others
        \/ Svc_IncrementLoad(p) /\ UNCHANGED Svc_Others
        \/ Svc_IncrementLoop(p) /\ UNCHANGED Svc_Others
        \/ Svc_CreateStatic(p) /\ UNCHANGED Svc_Others
        \/ Svc_CreateDynamic(p) /\ UNCHANGED Svc_Others
        \/ Svc_Unlock(p) /\ UNCHANGED Svc_Others
        \/ Svc_Remove(p) /\ UNCHANGED Svc_Others
        \/ Svc_DecrementLoad(p) /\ UNCHANGED Svc_Others
        \/ Svc_DecrementLoop(p) /\ UNCHANGED Svc_Others

SpecSvc == Svc_Init /\ [][Svc_Next]_vars

OOC_Init == IQ_Init

\* every process calls open_or_create once and keeps what it gets
OOC_Next ==
    \E p \in ServiceUsers :
        \/ Svc_OpenOrCreate(p) /\ UNCHANGED Svc_Others
        \/ Svc_OpenStatic(p) /\ UNCHANGED Svc_Others
        \/ Svc_OpenMetadata(p) /\ UNCHANGED Svc_Others
        \/ Svc_OpenDynamic(p) /\ UNCHANGED Svc_Others
        \/ Svc_IncrementLoad(p) /\ UNCHANGED Svc_Others
        \/ Svc_IncrementLoop(p) /\ UNCHANGED Svc_Others
        \/ Svc_CreateStatic(p) /\ UNCHANGED Svc_Others
        \/ Svc_CreateDynamic(p) /\ UNCHANGED Svc_Others
        \/ Svc_Unlock(p) /\ UNCHANGED Svc_Others
        \/ Svc_Remove(p) /\ UNCHANGED Svc_Others

SpecOOC == OOC_Init /\ [][OOC_Next]_vars

\* no process stops in the middle of a call
FairSpecOOC == SpecOOC /\ WF_vars(OOC_Next)

GD_Init == IQ_Init

GD_Others == <<iq, soq, rc, ss, svc, ev, ps, pa, sc, fs, ls, oc>>

\* threads acquire and drop the guards of one queue; a guard's holder pushes
\* or pops
GD_Next ==
    \/ \E kind \in GD_Kinds : GD_Construct(kind) /\ UNCHANGED GD_Others
    \/ \E t \in GD_Threads :
        \/ GD_AcquireProducer(t) /\ UNCHANGED GD_Others
        \/ GD_AcquireConsumer(t) /\ UNCHANGED GD_Others
        \/ GD_DropProducer(t) /\ UNCHANGED GD_Others
        \/ GD_DropConsumer(t) /\ UNCHANGED GD_Others
        \/ GD_Push(t) /\ UNCHANGED GD_Others
        \/ GD_Pop(t) /\ UNCHANGED GD_Others

PA_Init == IQ_Init

PA_Others == <<iq, soq, rc, ss, svc, gd, ev, ps, sc, fs, ls, oc>>

\* threads that allocate and deallocate in any order
PA_Next ==
    \E t \in PA_Threads :
        \/ \E layout \in PA_Layouts : PA_Allocate(t, layout) /\ UNCHANGED PA_Others
        \/ \E ptr \in pa.held[t] : PA_Deallocate(t, ptr) /\ UNCHANGED PA_Others

SpecPA == PA_Init /\ [][PA_Next]_vars

\* pool allocators of several bucket layouts, used as the contract says
PL_Init ==
    \E allocator \in PL_Allocators :
        /\ pa = PA_init(allocator)
        /\ iq = IQ_New /\ soq = SOQ_New /\ rc = RC_New /\ ss = SS_New
        /\ svc = Svc_New /\ gd = GD_New /\ ev = EV_New /\ ps = PS_New
        /\ sc = SC_New /\ fs = FS_New /\ ls = LS_New /\ oc = OC_New

SpecPL == PL_Init /\ [][PA_Next]_vars

\* the same with deallocate also called with foreign pointers
PD_Next ==
    \E t \in PA_Threads :
        \/ \E layout \in PA_Layouts : PA_Allocate(t, layout) /\ UNCHANGED PA_Others
        \/ \E ptr \in pa.held[t] : PA_Deallocate(t, ptr) /\ UNCHANGED PA_Others
        \/ \E ptr \in PA_Pointers(pa.allocator) :
               PA_DeallocateOutside(t, ptr) /\ UNCHANGED PA_Others

SpecPD == PL_Init /\ [][PD_Next]_vars

SC_Init == IQ_Init

SC_Others == <<iq, soq, rc, ss, svc, gd, ev, ps, pa, fs, ls, oc>>

\* an event service that is created, opened and dropped
SC_Next ==
    \/ \E notifiers, listeners \in SC_Capacities :
          SC_Create(notifiers, listeners) /\ UNCHANGED SC_Others
    \/ \E notifiers, listeners \in SC_Requirements :
          SC_Open(notifiers, listeners) /\ UNCHANGED SC_Others
    \/ SC_Drop /\ UNCHANGED SC_Others

SpecSC == SC_Init /\ [][SC_Next]_vars

SpecGD == GD_Init /\ [][GD_Next]_vars

EV_Init == IQ_Init

EV_Others == <<iq, soq, rc, ss, svc, gd, ps, pa, sc, fs, ls, oc>>

\* one notifier, while listeners come, wait and go
EV_Next ==
    \/ \E l \in Listeners :
        \/ EV_ListenerNew(l) /\ UNCHANGED EV_Others
        \/ EV_ListenerDrop(l) /\ UNCHANGED EV_Others
        \/ EV_TryWait(l) /\ UNCHANGED EV_Others
    \/ EV_NotifierNewAddId(1) /\ UNCHANGED EV_Others
    \/ EV_NotifierNewPopulate(1) /\ UNCHANGED EV_Others
    \/ EV_Notify(1) /\ UNCHANGED EV_Others
    \/ EV_NotifyWithCustomTriggerId(1) /\ UNCHANGED EV_Others
    \/ EV_NotifyPopulate(1) /\ UNCHANGED EV_Others
    \/ EV_NotifyWrite(1) /\ UNCHANGED EV_Others

SpecEV == EV_Init /\ [][EV_Next]_vars

EVT_Init == IQ_Init

\* service_event_tests.rs, communication_with_max_notifiers_and_listeners:
\* the listeners are created, then the notifiers; the notifiers notify and
\* the listeners wait in any order
EVT_Next ==
    \/ \E l \in Listeners :
        \/ EV_ListenerNew(l) /\ ev.notifiers = {} /\ UNCHANGED EV_Others
        \/ EV_TryWait(l) /\ UNCHANGED EV_Others
    \/ \E n \in Notifiers :
        \/ EV_NotifierNewAddId(n) /\ UNCHANGED EV_Others
        \/ EV_NotifierNewPopulate(n) /\ UNCHANGED EV_Others
        \/ EV_Notify(n) /\ UNCHANGED EV_Others
        \/ EV_NotifyWrite(n) /\ UNCHANGED EV_Others

SpecEVT == EVT_Init /\ [][EVT_Next]_vars

Rty_Init == IQ_Init

\* the steps of notifier 1
Rty_Notifier ==
    \/ EV_NotifierNewAddId(1) /\ UNCHANGED EV_Others
    \/ EV_NotifierNewPopulate(1) /\ UNCHANGED EV_Others
    \/ EV_NotifyAgain(1) /\ UNCHANGED EV_Others
    \/ EV_NotifyPopulate(1) /\ UNCHANGED EV_Others
    \/ EV_NotifyWrite(1) /\ UNCHANGED EV_Others

\* the listeners take what their channel holds
Rty_Listeners == \E l \in Listeners : EV_TryWait(l) /\ UNCHANGED EV_Others

\* one notifier that notifies again and again; listeners come and stay, and
\* the open of a listener's channel fails at times
Rty_Next ==
    \/ \E l \in Listeners :
        \/ EV_ListenerNew(l) /\ UNCHANGED EV_Others
        \/ EV_OpenFails(l) /\ UNCHANGED EV_Others
        \/ EV_OpenWorks(l) /\ UNCHANGED EV_Others
    \/ Rty_Listeners
    \/ Rty_Notifier

SpecRty == Rty_Init /\ [][Rty_Next]_vars

\* the notifier goes on with its calls and the listeners go on waiting
FairSpecRty == SpecRty /\ WF_vars(Rty_Notifier) /\ WF_vars(Rty_Listeners)

PS_Init == IQ_Init

PS_Others == <<iq, soq, rc, ss, svc, gd, ev, pa, sc, fs, ls, oc>>

\* the publishers and the subscriber of one service
PS_Next ==
    \/ \E overflow \in BOOLEAN : PS_Create(overflow) /\ UNCHANGED PS_Others
    \/ \E p \in Publishers :
        \/ PS_PublisherNew(p) /\ UNCHANGED PS_Others
        \/ PS_Loan(p) /\ UNCHANGED PS_Others
        \/ \E offset \in PS_Offsets : PS_Send(p, offset) /\ UNCHANGED PS_Others
        \/ PS_PublisherDrop(p) /\ UNCHANGED PS_Others
    \/ PS_SubscriberNewPopulate({}) /\ UNCHANGED PS_Others
    \/ PS_SubscriberNewAddId /\ UNCHANGED PS_Others
    \/ PS_UpdateConnections({}) /\ UNCHANGED PS_Others
    \/ PS_Receive({}) /\ UNCHANGED PS_Others
    \/ \E k \in 1..(MaxSends + 1) :
        PS_SampleDrop(k) /\ UNCHANGED PS_Others

SpecPS == PS_Init /\ [][PS_Next]_vars

PS1_Init == IQ_Init

\* one publisher and the subscriber
PS1_Next ==
    \/ \E overflow \in BOOLEAN : PS_Create(overflow) /\ UNCHANGED PS_Others
    \/ PS_PublisherNew(1) /\ UNCHANGED PS_Others
    \/ PS_Loan(1) /\ UNCHANGED PS_Others
    \/ \E offset \in PS_Offsets : PS_Send(1, offset) /\ UNCHANGED PS_Others
    \/ PS_PublisherDrop(1) /\ UNCHANGED PS_Others
    \/ PS_SubscriberNewPopulate({}) /\ UNCHANGED PS_Others
    \/ PS_SubscriberNewAddId /\ UNCHANGED PS_Others
    \/ PS_UpdateConnections({}) /\ UNCHANGED PS_Others
    \/ PS_Receive({}) /\ UNCHANGED PS_Others
    \/ \E k \in 1..(MaxSends + 1) :
        PS_SampleDrop(k) /\ UNCHANGED PS_Others

SpecPS1 == PS1_Init /\ [][PS1_Next]_vars

New_Init == IQ_Init

New_Others == <<iq, soq, rc, ss, svc, gd, pa, sc, fs, ls, oc>>

\* the construction of notifiers and of the subscriber while their peers,
\* listeners and publishers, come and go
New_Next ==
    \/ \E l \in Listeners :
        \/ EV_ListenerNew(l) /\ UNCHANGED <<New_Others, ps>>
        \/ EV_ListenerDrop(l) /\ UNCHANGED <<New_Others, ps>>
    \/ \E n \in Notifiers :
        \/ EV_NotifierNewAddId(n) /\ UNCHANGED <<New_Others, ps>>
        \/ EV_NotifierNewPopulate(n) /\ UNCHANGED <<New_Others, ps>>
    \/ \E overflow \in BOOLEAN : PS_Create(overflow) /\ UNCHANGED <<New_Others, ev>>
    \/ \E p \in Publishers :
        \/ PS_PublisherNew(p) /\ UNCHANGED <<New_Others, ev>>
        \/ PS_PublisherDrop(p) /\ UNCHANGED <<New_Others, ev>>
    \/ PS_SubscriberNewPopulate({}) /\ UNCHANGED <<New_Others, ev>>
    \/ PS_SubscriberNewAddId /\ UNCHANGED <<New_Others, ev>>

SpecNew == New_Init /\ [][New_Next]_vars

Reg_Init == IQ_Init

\* notifiers and a subscriber are created and dropped while the ports of other
\* processes take and free slots of the same registries
Reg_Next ==
    \/ \E n \in Notifiers :
        \/ EV_NotifierNewAddId(n) /\ UNCHANGED <<New_Others, ps>>
        \/ EV_NotifierNewPopulate(n) /\ UNCHANGED <<New_Others, ps>>
        \/ EV_NotifierDrop(n) /\ UNCHANGED <<New_Others, ps>>
    \/ EV_OtherNotifierNew /\ UNCHANGED <<New_Others, ps>>
    \/ EV_OtherNotifierDrop /\ UNCHANGED <<New_Others, ps>>
    \/ PS_Create(FALSE) /\ UNCHANGED <<New_Others, ev>>
    \/ PS_PublisherNew(1) /\ UNCHANGED <<New_Others, ev>>
    \/ PS_SubscriberNewPopulate({}) /\ UNCHANGED <<New_Others, ev>>
    \/ PS_SubscriberNewAddId /\ UNCHANGED <<New_Others, ev>>
    \/ PS_SubscriberDrop /\ UNCHANGED <<New_Others, ev>>
    \/ PS_OtherSubscriberNew /\ UNCHANGED <<New_Others, ev>>
    \/ PS_OtherSubscriberDrop /\ UNCHANGED <<New_Others, ev>>

Deg_Init == IQ_Init

\* a subscriber with a degradation callback, and publishers some of which it
\* cannot connect to
Deg_Next ==
    \/ PS_Create(FALSE) /\ UNCHANGED PS_Others
    \/ \E p \in Publishers :
        \/ PS_PublisherNew(p) /\ UNCHANGED PS_Others
        \/ PS_PublisherDrop(p) /\ UNCHANGED PS_Others
    \/ \E failing \in SUBSET Publishers :
        \/ PS_SubscriberNewPopulate(failing) /\ UNCHANGED PS_Others
        \/ PS_UpdateConnections(failing) /\ UNCHANGED PS_Others
        \/ PS_Receive(failing) /\ UNCHANGED PS_Others
    \/ PS_SubscriberNewAddId /\ UNCHANGED PS_Others
    \/ \E action \in PS_DegrationActions :
        PS_SetDegrationCallback(action) /\ UNCHANGED PS_Others

SpecDeg == Deg_Init /\ [][Deg_Next]_vars

SpecReg == Reg_Init /\ [][Reg_Next]_vars


\* -------------------------------------------------------------- claims

\* C1: the values pop returned as Some(..) are, in order, a prefix of the
\* values whose push returned true: nothing is reordered, duplicated, skipped
\* or invented.
C1_PopsArePrefixOfPushes == IsPrefix(iq.popped, iq.pushed)

\* the queue wrapped: a cell was reused, and the consumer got values of both
\* uses while the producer was in the middle of a later push
C1_Witness ==
    /\ Len(iq.popped) > QueueCapacity
    /\ iq.ppc = "store"
    /\ iq.last_pop = "Some"

\* number of places of the sequence s that hold v
Occurrences(s, v) == Cardinality({i \in 1..Len(s) : s[i] = v})

\* the values stored between the cursors, oldest first
SOQ_Contents ==
    [i \in 1..(soq.write_position - soq.read_position) |->
        soq.data[SOQ_at(soq.read_position + i - 1)]]

\* 1 while the producer has evicted a value that its push has not returned yet
SOQ_EvictionInFlight(v) ==
    IF soq.ppc = "read_evicted" /\ soq.data[SOQ_at(soq.p_read_position)] = v
    THEN 1 ELSE 0

\* C2: every pushed value is in exactly one place: returned by one pop, or
\* returned (or about to be returned) as the evicted value by one push, or
\* still stored in the queue; and nothing else is ever returned.
C2_EveryValueLeavesOnce ==
    /\ \A v \in 1..Len(soq.pushed) :
          Occurrences(soq.popped, v) + Occurrences(soq.evicted, v)
            + Occurrences(SOQ_Contents, v) + SOQ_EvictionInFlight(v) = 1
    /\ \A i \in 1..Len(soq.popped) : soq.popped[i] \in 1..Len(soq.pushed)
    /\ \A i \in 1..Len(soq.evicted) : soq.evicted[i] \in 1..Len(soq.pushed)

\* consumer and producer raced for the oldest value of a full queue: the pop
\* had to repeat its compare_exchange, and both pops and evictions happened
C2_Witness ==
    /\ soq.retries > 0
    /\ soq.cpc = "idle"
    /\ Len(soq.popped) > 0
    /\ Len(soq.evicted) > 0

\* the last min(k, C) of the values 1..k, in push order
LastPushed(k) ==
    LET n == IF k < QueueCapacity THEN k ELSE QueueCapacity
    IN  [i \in 1..n |-> k - n + i]

C4_NoIncrementAfterMarked ==
    [][rc.reference_counter = MARKED_FOR_DESTRUCTION =>
        /\ rc'.reference_counter = MARKED_FOR_DESTRUCTION
        /\ \A p \in Processes :
              /\ rc'.pc[p] \notin {"holding", "decrement_loop"}
              /\ (rc.pc[p] = "increment_loop" /\ rc'.pc[p] = "none")
                    => rc'.returned[p] = "Err"]_vars

\* an increment that began after the counter was marked has returned Err
C4_Witness ==
    /\ rc.reference_counter = MARKED_FOR_DESTRUCTION
    /\ \E p \in Processes :
          /\ rc.marked_at_call[p]
          /\ rc.pc[p] = "none"
          /\ rc.returned[p] = "Err"

\* C5: a decrement returns NoMoreOwners iff it released the last reference:
\* exactly one call has returned NoMoreOwners when the counter is marked and
\* none before, and the counter is marked as soon as no holder is left.
C5_ExactlyOneNoMoreOwners ==
    /\ rc.no_more_owners =
          (IF rc.reference_counter = MARKED_FOR_DESTRUCTION THEN 1 ELSE 0)
    /\ RC_AliveHolders = {} <=> rc.reference_counter = MARKED_FOR_DESTRUCTION

\* every process held a reference and dropped it; a decrement had to repeat
\* its compare_exchange; one returned NoMoreOwners and another HasOwners
C5_Witness ==
    /\ rc.no_more_owners = 1
    /\ \E p, q \in Processes :
          /\ rc.returned[p] = "NoMoreOwners"
          /\ rc.returned[q] = "HasOwners"

\* C6: while at least one holder is alive the reference counter is not the
\* destruction sentinel and equals the number of alive holders.
C6_CounterCountsHolders ==
    RC_AliveHolders # {} =>
        /\ rc.reference_counter # MARKED_FOR_DESTRUCTION
        /\ rc.reference_counter = Cardinality(RC_AliveHolders)

\* every process holds a reference, one of them in the middle of its drop
C6_Witness ==
    /\ Cardinality(RC_AliveHolders) = NumProcesses
    /\ \E p \in Processes : rc.pc[p] = "decrement_loop"

\* C8: an open never returns a storage with empty or partially written
\* content: the storage it returns has the length of the complete content
\* passed to create, and its file holds that complete content.
C8_OpenSeesCompleteContent ==
    \A p \in StorageUsers :
        (ss.opened[p] # "none" /\ ss.pc[p] = "storage") =>
            /\ ss.len[p] = ContentLen
            /\ ss.files[ss.file[p]].size = ContentLen

\* an open that found the file still locked, in the middle of a create,
\* returned a storage
C8_Witness ==
    \E p \in StorageUsers :
        /\ ss.pc[p] = "storage"
        /\ ss.opened[p] = "locked"
        /\ ss.returned = [process |-> p, value |-> "Ok"]

C7_Holders == {p \in ServiceUsers : svc.pc[p] \in {"holding", "decrement_loop"}}

C10_AllReturned ==
    \A p \in ServiceUsers : svc.called[p] /\ svc.pc[p] \in {"none", "holding"}

\* C10: of the processes that call open_or_create on a name without a
\* service, at most one creates the service and, as soon as any of them has a
\* handle, exactly one has; all handles are to that one service, whose file
\* and segment are under the name; and every call returns.
C10_OneCreatorAllOthersOpen ==
    /\ [](/\ Cardinality(svc.creators) <= 1
          /\ \A p \in C7_Holders :
                /\ Cardinality(svc.creators) = 1
                /\ svc.segment[p] = svc.name
                /\ svc.path = svc.name
                /\ svc.instances[svc.name].permission = FINAL_PERMISSIONS
                /\ svc.instances[svc.name].reference_counter >= Cardinality(C7_Holders)
          /\ \A p \in ServiceUsers : svc.attempts[p] <= MaxRetries)
    /\ <>C10_AllReturned

\* all calls returned a handle: one process created the service, the others
\* opened it
C10_Witness ==
    /\ C10_AllReturned
    /\ C7_Holders = ServiceUsers
    /\ Cardinality(svc.creators) = 1
    /\ svc.instances[svc.name].reference_counter = NumServiceUsers

\* C19: of every SPSC queue at most one Producer guard and at most one
\* Consumer guard exist at any time, and an acquire_producer /
\* acquire_consumer called while the corresponding guard is held returns None.
C19_SingleProducerSingleConsumer ==
    /\ [](GD_Count(gd.producers) <= 1 /\ GD_Count(gd.consumers) <= 1)
    /\ [][\A t \in GD_Threads :
            /\ (GD_AcquireProducer(t) /\ GD_Count(gd.producers) > 0)
                   => gd'.returned.value = "None" /\ gd'.producers = gd.producers
            /\ (GD_AcquireConsumer(t) /\ GD_Count(gd.consumers) > 0)
                   => gd'.returned.value = "None" /\ gd'.consumers = gd.consumers]_vars

\* an acquire_producer was refused while another thread holds the Producer
\* and the Consumer is held too
C19_Witness ==
    /\ gd.returned.call = "acquire_producer"
    /\ gd.returned.value = "None"
    /\ GD_Count(gd.producers) = 1
    /\ gd.producers[gd.returned.thread] = 0
    /\ GD_Count(gd.consumers) = 1

\* C20: after a Producer (Consumer) guard is dropped the next
\* acquire_producer (acquire_consumer) returns the guard, and acquiring and
\* dropping guards leaves the queue's cells and cursors unchanged.
C20_AcquireAfterDropSucceeds ==
    [][\A t \in GD_Threads :
        /\ (GD_AcquireProducer(t) /\ GD_Count(gd.producers) = 0)
               => gd'.returned.value = "Some" /\ gd'.producers[t] = 1
        /\ (GD_AcquireConsumer(t) /\ GD_Count(gd.consumers) = 0)
               => gd'.returned.value = "Some" /\ gd'.consumers[t] = 1
        /\ (\/ GD_AcquireProducer(t) \/ GD_AcquireConsumer(t)
            \/ GD_DropProducer(t) \/ GD_DropConsumer(t))
               => GD_Queue(gd') = GD_Queue(gd)]_vars

\* a thread acquired the Producer after an earlier Producer had pushed and was
\* dropped, with values in the queue
C20_Witness ==
    /\ gd.returned.call = "acquire_producer"
    /\ gd.returned.value = "Some"
    /\ gd.write_position > gd.read_position
    /\ gd.read_position > 0

\* occurrences of id in the sequence ids
RECURSIVE EV_Occurrences(_, _)
EV_Occurrences(ids, id) ==
    IF ids = <<>> THEN 0
    ELSE (IF Head(ids) = id THEN 1 ELSE 0) + EV_Occurrences(Tail(ids), id)

\* listeners that were registered when the running notify call of n began
EV_Targets(n) ==
    {l \in Listeners : \E i \in EV_Slots : ev.listener_list_state[n][i] = l}

C17_LateListenerGetsNotification ==
    [][\A n \in Notifiers :
        EV_NotifyWrite(n) =>
            \A l \in EV_Targets(n) \cap EV_Registered(ev) :
                ev'.channel[l] = Append(ev.channel[l], ev.value[n])]_vars

\* listeners the connection table of notifier n reaches
EV_Connected(n) ==
    {l \in Listeners : \E i \in EV_Slots : ev.listener_connections[n][i] = l}

PS_Held == 1..(MaxSends + 1)

\* the samples held that were received on a connection the subscriber still has
PS_Borrowed ==
    {k \in 1..Len(ps.samples) :
        ps.publisher_connections[ps.samples[k].channel_id] = ps.samples[k].publisher}

\* the samples held that were received from publisher p
PS_BorrowedFrom(p) == {k \in 1..Len(ps.samples) : ps.samples[k].publisher = p}

\* C11: the number of samples the subscriber holds borrowed at any time,
\* summed over all its publisher connections, never exceeds
\* subscriber_max_borrowed_samples.
C11_BorrowedWithinLimit ==
    Cardinality(PS_Borrowed) <= subscriber_max_borrowed_samples

\* C12: for every publisher, the buckets in its pool, loaned, in the
\* submission queue, borrowed by the subscriber and waiting in the retrieve
\* queue add up to the pool capacity at every time, and no bucket is in the
\* pool while it is loaned, queued or borrowed.
C12_BucketsConserved ==
    \A p \in Publishers :
        ps.ppc[p] = "alive" =>
            /\ Cardinality(ps.pool[p]) + Cardinality(ps.loaned[p])
                   + Len(ps.submission[p]) + Cardinality(PS_BorrowedFrom(p))
                   + Len(ps.retrieve[p]) = PS_NumberOfBuckets
            /\ ps.pool[p] \cap (ps.loaned[p] \cup PS_Range(ps.submission[p])
                   \cup {ps.samples[k].offset : k \in PS_BorrowedFrom(p)}) = {}

C14_SampleDropReturnsOffset ==
    [][\A k \in PS_Held :
        (PS_SampleDrop(k) /\ ps'.returned.result # "RetrieveBufferFull") =>
            ps'.retrieve = [ps.retrieve EXCEPT ![ps.samples[k].publisher] =
                                Append(@, ps.samples[k].offset)]]_vars

\* C15: for every port type the port's id is in the registry only when the
\* port's initial reconciliation has run: a notifier whose id its peers can
\* see has populated its listener connections, and so has a subscriber its
\* publisher connections.
C15_IdAddedAfterReconciliation ==
    /\ \A n \in ev.notifiers : ev.npc[n] # "new_populate"
    /\ ps.subscribers # {} => ps.spc \notin {"none", "populated"}

\* --------------------------------------------------- claims C21 to C30

\* C21: a push returns false exactly when the queue holds QueueCapacity
\* elements at the moment it compares the cursors, and then changes nothing;
\* a pop returns None exactly when the queue is empty at that moment, and then
\* changes nothing; a push that found room returns true.  In every state
\* 0 <= write_position - read_position <= QueueCapacity, and while no push
\* or pop is running len() is the number of accepted pushes minus the number
\* of pops, is_full() iff len() = QueueCapacity, is_empty() iff len() = 0.
C21_PushAndPopRespectCapacity ==
    /\ [](/\ 0 <= iq.write_position - iq.read_position
          /\ iq.write_position - iq.read_position <= QueueCapacity
          /\ (iq.ppc = "idle" /\ iq.cpc = "idle") =>
                LET len == IQ_len(iq.write_position, iq.read_position) IN
                /\ len = Len(iq.pushed) - Len(iq.popped)
                /\ IQ_IsFull(iq.write_position, iq.read_position) <=> len = QueueCapacity
                /\ IQ_IsEmpty(iq.write_position, iq.read_position) <=> len = 0)
    /\ [][/\ IQ_PushLoadReadPosition =>
                /\ (iq'.ppc = "idle") <=>
                       (iq.write_position - iq.read_position = QueueCapacity)
                /\ iq'.ppc = "idle" =>
                       /\ iq'.last_push = "false"
                       /\ iq'.data = iq.data /\ iq'.pushed = iq.pushed
                       /\ iq'.write_position = iq.write_position
                       /\ iq'.read_position = iq.read_position
          /\ IQ_PushStore =>
                /\ iq'.last_push = "true"
                /\ iq'.pushed = Append(iq.pushed, iq.p_value)
          /\ IQ_PopLoadWritePosition =>
                /\ (iq'.cpc = "idle") <=> (iq.write_position = iq.read_position)
                /\ iq'.cpc = "idle" =>
                       /\ iq'.last_pop = "None"
                       /\ iq'.data = iq.data /\ iq'.popped = iq.popped
                       /\ iq'.write_position = iq.write_position
                       /\ iq'.read_position = iq.read_position]_vars

\* a full queue at rest whose last push was refused, after a pop
C21_Witness ==
    /\ iq.ppc = "idle" /\ iq.cpc = "idle"
    /\ iq.last_push = "false"
    /\ Len(iq.popped) > 0
    /\ IQ_len(iq.write_position, iq.read_position) = QueueCapacity

\* the processes that hold a handle or are inside a call
Svc_Busy == {p \in ServiceUsers : svc.pc[p] # "none"}

\* C22: once the last handle of the service is dropped and no call is under
\* way, neither the static file nor the dynamic segment is under the name;
\* a create that runs while no other process holds or calls the service does
\* not find a stale file or segment.
C22_NothingRemainsAfterLastDrop ==
    /\ [](Svc_Busy = {} => svc.path = 0 /\ svc.name = 0)
    /\ [][\A p \in ServiceUsers :
            Svc_Busy \subseteq {p} =>
                /\ Svc_CreateStatic(p) => svc'.pc[p] = "create_dynamic"
                /\ Svc_CreateDynamic(p) => svc'.pc[p] = "unlock"]_vars

\* the drop of the last handle has just ended and nobody uses the service
C22_Witness ==
    /\ svc.returned.call = "drop"
    /\ Svc_Busy = {}
    /\ svc.path = 0 /\ svc.name = 0

\* the dynamic segment is under the name iff the static file is, unlocked
Svc_DynamicIffStaticUnlocked ==
    svc.name # 0 <=>
        (svc.path # 0 /\ svc.instances[svc.path].permission = FINAL_PERMISSIONS)

\* C30, as stated: in every reachable state the dynamic config segment exists
\* iff the static config file exists in the unlocked state.
C30_DynamicIffStaticUnlocked == Svc_DynamicIffStaticUnlocked

\* the processes that are between the first and the last step of a creation,
\* of its cleanup or of the removal by the last holder's drop
Svc_SettingUpOrTearingDown ==
    {p \in ServiceUsers :
        svc.pc[p] \in {"create_dynamic", "unlock", "cleanup", "remove"}}

\* C30, amended: whenever no creation and no removal is under way, the
\* dynamic config segment exists iff the static config file exists in the
\* unlocked state, and both belong to the same creation.
C30_DynamicIffStaticUnlockedAtRest ==
    Svc_SettingUpOrTearingDown = {} =>
        /\ Svc_DynamicIffStaticUnlocked
        /\ svc.name = svc.path

\* a service that exists while one process holds it and another opens it
C30_Witness ==
    /\ Svc_SettingUpOrTearingDown = {}
    /\ svc.name # 0
    /\ \E p, q \in ServiceUsers :
        /\ svc.pc[p] = "holding"
        /\ svc.pc[q] \in {"open_dynamic", "increment_load", "increment_loop"}

\* C29: marked-for-destruction is one-way: once the reference counter holds
\* the sentinel, no later call of increment_reference_counter or
\* decrement_reference_counter changes it.
C29_MarkedIsOneWay ==
    [][rc.reference_counter = MARKED_FOR_DESTRUCTION
          => rc'.reference_counter = MARKED_FOR_DESTRUCTION]_vars

\* C28: no notification carries an id greater than event_id_max_value: what
\* notify and notify_with_custom_trigger_id write into a listener's channel,
\* and so what try_wait hands out, is at most event_id_max_value.
C28_NoIdAboveMaxValue ==
    /\ \A l \in Listeners : \A i \in 1..Len(ev.channel[l]) :
           ev.channel[l][i] <= event_id_max_value
    /\ \A i \in 1..Len(ev.returned.ids) : ev.returned.ids[i] <= event_id_max_value

\* the addresses of the allocator's buckets
PA_BucketAddresses == {PA_start + i * PA_bucket_size : i \in 0..(NumBuckets - 1)}

\* a layout that fits a bucket
PA_Fits(layout) ==
    layout.size <= PA_bucket_size /\ layout.align <= PA_bucket_alignment

\* C24: for every sequence of allocate and deallocate calls of several
\* threads, allocate never returns a bucket that is currently allocated: the
\* outstanding allocations are at most NumBuckets, at pairwise distinct bucket
\* addresses; allocate with NumBuckets outstanding allocations returns
\* OutOfMemory, with fewer it returns a bucket, so a deallocated bucket can be
\* allocated again.
C24_AllocateReturnsFreeBucket ==
    /\ [](/\ PA_Outstanding(pa) \subseteq PA_BucketAddresses
          /\ \A t, u \in PA_Threads : t # u => pa.held[t] \cap pa.held[u] = {}
          /\ Cardinality(PA_Outstanding(pa)) + Len(pa.free) = NumBuckets)
    /\ [][\A t \in PA_Threads :
            /\ \A layout \in PA_Layouts :
                 PA_Allocate(t, layout) /\ PA_Fits(layout) =>
                    IF Cardinality(PA_Outstanding(pa)) = NumBuckets
                    THEN /\ pa'.returned.result = "OutOfMemory"
                         /\ pa'.held = pa.held
                    ELSE /\ pa'.returned.result = "Ok"
                         /\ pa'.returned.address \notin PA_Outstanding(pa)
                         /\ pa'.held =
                              [pa.held EXCEPT ![t] = @ \cup {pa'.returned.address}]
            /\ \A ptr \in pa.held[t] :
                 PA_Deallocate(t, ptr) =>
                    /\ pa'.returned.result = "Ok"
                    /\ pa'.held = [pa.held EXCEPT ![t] = @ \ {ptr}]]_vars

\* allocate has returned the first bucket while the last one is allocated,
\* so after the first one was allocated and deallocated before; now every
\* bucket is allocated and every thread holds one
C24_Witness ==
    /\ pa.returned.call = "allocate"
    /\ pa.returned.result = "Ok"
    /\ pa.returned.address = PA_start
    /\ PA_start + (NumBuckets - 1) * PA_bucket_size \in PA_Outstanding(pa)
    /\ Cardinality(PA_Outstanding(pa)) = NumBuckets
    /\ \A t \in PA_Threads : pa.held[t] # {}

\* C23: opening an event service with a required max_notifiers (max_listeners)
\* greater than the value it was created with fails with
\* DoesNotSupportRequestedAmountOfNotifiers (DoesNotSupportRequestedAmountOfListeners),
\* opening with requirements that are at most the created values succeeds,
\* and opening a service that does not exist fails with DoesNotExist.
C23_OpenChecksRequestedAmounts ==
    [][\A notifiers, listeners \in SC_Requirements :
          SC_Open(notifiers, listeners) =>
            /\ ~sc.created => sc'.returned.result = "DoesNotExist"
            /\ sc.created /\ notifiers > sc.max_notifiers
                          /\ listeners <= sc.max_listeners
                 => sc'.returned.result = "DoesNotSupportRequestedAmountOfNotifiers"
            /\ sc.created /\ listeners > sc.max_listeners
                          /\ notifiers <= sc.max_notifiers
                 => sc'.returned.result = "DoesNotSupportRequestedAmountOfListeners"
            /\ sc.created /\ notifiers > sc.max_notifiers
                          /\ listeners > sc.max_listeners
                 => sc'.returned.result \in
                        {"DoesNotSupportRequestedAmountOfNotifiers",
                         "DoesNotSupportRequestedAmountOfListeners"}
            /\ sc.created /\ notifiers <= sc.max_notifiers
                          /\ listeners <= sc.max_listeners
                 => /\ sc'.returned.result = "Ok"
                    /\ sc'.handles = sc.handles + 1
            /\ sc'.returned.result # "Ok" => sc'.handles = sc.handles
            /\ sc'.max_notifiers = sc.max_notifiers
            /\ sc'.max_listeners = sc.max_listeners]_vars

\* an open that requires more listeners than the service was created with
\* has failed, the required notifiers being exactly the created ones
C23_Witness ==
    /\ sc.created
    /\ sc.returned.call = "open"
    /\ sc.returned.result = "DoesNotSupportRequestedAmountOfListeners"
    /\ sc.returned.listeners = sc.max_listeners + 1
    /\ sc.returned.notifiers = sc.max_notifiers

\* C25: with no free slot in the registry Notifier::new returns
\* ExceedsMaxSupportedNotifiers and Subscriber::new returns
\* ExceedsMaxSupportedSubscribers in the step that looked for the slot, and
\* the registry is as it was before the call; with a free slot the port is
\* created and registered, and its drop frees the slot again.
C25_FullRegistryRefusesPort ==
    /\ [](/\ Cardinality(ev.notifiers) + ev.other_notifiers <= max_notifiers
          /\ Cardinality(ps.subscribers) + ps.other_subscribers <= max_subscribers)
    /\ [][/\ \A n \in Notifiers :
              /\ EV_NotifierNewAddId(n) =>
                    IF Cardinality(ev.notifiers) + ev.other_notifiers = max_notifiers
                    THEN /\ ev'.returned.call = "new"
                         /\ ev'.returned.result = "ExceedsMaxSupportedNotifiers"
                         /\ ev'.npc[n] = "none"
                         /\ ev'.notifiers = ev.notifiers
                         /\ ev'.other_notifiers = ev.other_notifiers
                    ELSE /\ ev'.npc[n] = "new_populate"
                         /\ ev'.notifiers = ev.notifiers \cup {n}
              /\ EV_NotifierNewPopulate(n) =>
                    /\ ev'.returned.result = "Ok"
                    /\ ev'.npc[n] = "idle"
                    /\ n \in ev'.notifiers
              /\ EV_NotifierDrop(n) =>
                    /\ n \in ev.notifiers
                    /\ ev'.notifiers = ev.notifiers \ {n}
                    /\ EV_add_notifier_id(ev')
          /\ PS_SubscriberNewAddId =>
                IF Cardinality(ps.subscribers) + ps.other_subscribers = max_subscribers
                THEN /\ ps'.returned.call = "new"
                     /\ ps'.returned.result = "ExceedsMaxSupportedSubscribers"
                     /\ ps'.spc = "none"
                     /\ ps'.subscribers = ps.subscribers
                     /\ ps'.other_subscribers = ps.other_subscribers
                ELSE /\ ps'.spc = "alive"
                     /\ ps'.subscribers = {1}
          /\ PS_SubscriberDrop =>
                /\ ps.subscribers = {1}
                /\ ps'.subscribers = {}
                /\ PS_add_subscriber_id(ps')]_vars

\* both registries are full of ports of other processes, and the last
\* Notifier::new and the last Subscriber::new have failed for it
C25_Witness ==
    /\ ev.returned.result = "ExceedsMaxSupportedNotifiers"
    /\ ps.returned.result = "ExceedsMaxSupportedSubscribers"
    /\ ev.notifiers = {1}
    /\ ev.other_notifiers = max_notifiers - 1
    /\ ps.other_subscribers = max_subscribers
    /\ ps.spc = "none"

\* the slots whose publisher a reconciliation pass has to connect to and
\* cannot
PS_FailingSlots(failing) ==
    {i \in PS_Slots : /\ ps.publishers[i] # 0
                      /\ ps.publisher_connections[i] = 0
                      /\ ps.publishers[i] \in failing}

\* the publishers of the slots S, each once, in the order of the slots
PS_PublishersAt(S) ==
    [k \in 1..Cardinality(S) |->
        ps.publishers[CHOOSE i \in S : Cardinality({j \in S : j < i}) = k - 1]]

\* what C26 says of a pass of the call named call, whose pass cannot connect
\* to the publishers in failing
PS_DegradationOutcome(call, failing) ==
    LET slots == PS_FailingSlots(failing)
        action == ps.degration_callback
        succeeded ==
            /\ ps'.returned.result # "ConnectionFailure"
            /\ \A i \in PS_Slots :
                 ps.publishers[i] # 0 /\ i \notin slots
                    => ps'.publisher_connections[i] # 0
            /\ \A i \in slots : ps'.publisher_connections[i] = 0
    IN  /\ ps'.returned.call = call
        /\ action = "None" =>
              /\ ps'.returned.callbacks = <<>>
              /\ ps'.returned.warned = PS_PublishersAt(slots)
              /\ succeeded
        /\ action = "Ignore" =>
              /\ ps'.returned.callbacks = PS_PublishersAt(slots)
              /\ ps'.returned.warned = <<>>
              /\ succeeded
        /\ action = "Warn" =>
              /\ ps'.returned.callbacks = PS_PublishersAt(slots)
              /\ ps'.returned.warned = PS_PublishersAt(slots)
              /\ succeeded
        /\ action = "Fail" =>
              IF slots = {} THEN ps'.returned.callbacks = <<>> /\ succeeded
              ELSE /\ ps'.returned.callbacks = <<ps.publishers[PS_Min(slots)]>>
                   /\ ps'.returned.result = "ConnectionFailure"
                   /\ ps'.samples = ps.samples

C27_ReceiveTakesConnectionsInTurn ==
    [][/\ ps'.returned.call = "receive"
       /\ ps'.returned.result = "Some"
       /\ ps'.returned.channel_id = ps.last_received
       => \A q \in ps.passed_over :
              \/ ps'.submission[q] = <<>>
              \/ \A j \in PS_Slots : ps'.publisher_connections[j] # q]_vars

\* ------------------------------------------------- claims C31 to C40

\* the bucket size the claim C31 names: the size rounded up to the alignment
PA_RoundedBucketSize(allocator) ==
    PA_align(allocator.bucket_size, allocator.bucket_alignment)

\* every address allocate handed out is a multiple of the bucket alignment
PA_BucketsAligned ==
    \A p \in PA_Outstanding(pa) : p % pa.allocator.bucket_alignment = 0

\* every address allocate handed out is the start of a bucket as the claim
\* C31 places them
PA_BucketsAtRoundedSize ==
    \A p \in PA_Outstanding(pa) :
        \E i \in 0..(pa.allocator.number_of_buckets - 1) :
            p = pa.allocator.start + i * PA_RoundedBucketSize(pa.allocator)

\* the buckets handed out do not overlap
PA_BucketsDisjoint ==
    \A p, q \in PA_Outstanding(pa) :
        p < q => p + pa.allocator.bucket_size <= q

\* the buckets handed out lie in the managed memory
PA_BucketsInside ==
    \A p \in PA_Outstanding(pa) :
        /\ p \in PA_Memory(pa.allocator)
        /\ p + pa.allocator.bucket_size - 1 \in PA_Memory(pa.allocator)

\* deallocate finds the index of the bucket allocate handed out
PA_DeallocateFindsIndex ==
    \A p \in PA_Outstanding(pa) :
        PA_bucket_address(pa.allocator, PA_get_index(pa.allocator, p)) = p

\* C31: the buckets of a pool allocator lie at start + i * round_up(size,
\* alignment): every address allocate returns is a multiple of the bucket
\* alignment, the buckets do not overlap and lie inside the managed memory,
\* and deallocate maps an address back to its index
C31_BucketsAlignedDisjointInside ==
    /\ PA_BucketsAtRoundedSize
    /\ PA_BucketsAligned
    /\ PA_BucketsDisjoint
    /\ PA_BucketsInside
    /\ PA_DeallocateFindsIndex

\* C38: deallocate of a pointer that lies in none of the buckets, the address
\* one past the end of the managed memory included, returns
\* ProvidedPointerNotContainedInAllocator and changes nothing of the
\* allocator; a bucket is released only for a pointer inside that bucket
C38_ForeignPointerRefused ==
    [][ pa'.returned.call = "deallocate" =>
          IF pa'.returned.address \in PA_InBuckets(pa.allocator)
          THEN pa'.returned.result = "Ok" =>
                 /\ Len(pa'.free) = Len(pa.free) + 1
                 /\ pa'.returned.address \in PA_Bucket(pa.allocator, Head(pa'.free))
          ELSE /\ pa'.returned.result = "ProvidedPointerNotContainedInAllocator"
               /\ pa'.free = pa.free
               /\ pa'.held = pa.held ]_vars

\* deallocate refuses the pointers the range check of get_index refuses
C38_PointerOutOfRangeRefused ==
    [][ /\ pa'.returned.call = "deallocate"
        /\ \/ pa'.returned.address < pa.allocator.start
           \/ pa'.returned.address > pa.allocator.start + pa.allocator.size
        => /\ pa'.returned.result = "ProvidedPointerNotContainedInAllocator"
           /\ pa'.free = pa.free
           /\ pa'.held = pa.held ]_vars

\* C32: after a successful reconciliation pass of a notifier, every slot the
\* registry snapshot of the pass has populated holds the connection to the
\* listener whose id is in that slot, and every other slot holds no
\* connection, also when a listener left and another one took its slot
\* since the pass before
C32_ConnectionsMatchRegistry ==
    [][\A n \in Notifiers :
         ev.npc[n] = "populate" /\ ev'.npc[n] = "write" =>
            \A i \in EV_Slots :
                ev'.listener_connections[n][i] = ev.listener_list_state[n][i]]_vars

\* C33: a notifier whose reconciliation pass did not connect every registered
\* listener tries again in a later notify, also when the registry has not
\* changed: a listener that stays registered and whose channel can be opened
\* from some time on is connected in the end
C33_RegisteredPeerConnectedInTheEnd ==
    \A l \in Listeners :
        <>[](ev.notifiers = {1} /\ l \in EV_Registered(ev) /\ l \notin ev.unreachable)
            => <>(l \in EV_Connected(1))

\* a notify call that begins while a registered listener is not connected
\* begins with a reconciliation pass
C33_NotifyTriesAgain ==
    [][ ev.npc[1] = "idle" /\ ev'.npc[1] # "idle"
        /\ EV_Registered(ev) \ EV_Connected(1) # {}
        => ev'.npc[1] = "populate" ]_vars

\* the values that have left the queue: returned by pop, returned by push as
\* evicted, or evicted by a push that has not returned yet
SOQ_Left ==
    {soq.popped[i] : i \in 1..Len(soq.popped)}
      \cup {soq.evicted[i] : i \in 1..Len(soq.evicted)}
      \cup (IF soq.ppc = "read_evicted"
            THEN {soq.data[SOQ_at(soq.p_read_position)]} ELSE {})

\* the values pop returned are in push order, and so are the values push
\* returned; every value that left is older than every value still stored
SOQ_LeavesInPushOrder ==
    /\ \A i, j \in 1..Len(soq.popped) : i < j => soq.popped[i] < soq.popped[j]
    /\ \A i, j \in 1..Len(soq.evicted) : i < j => soq.evicted[i] < soq.evicted[j]
    /\ \A v \in SOQ_Left :
          \A k \in 1..Len(SOQ_Contents) : v < SOQ_Contents[k]

\* the compare_exchange of an overflowing push takes the oldest stored value,
\* and that is the value the push returns
SOQ_EvictsOldest ==
    /\ soq.ppc = "compare_exchange" /\ soq'.ppc = "read_evicted"
          => soq'.data[SOQ_at(soq'.p_read_position)] = Head(SOQ_Contents)
    /\ soq.ppc = "read_evicted" /\ soq'.ppc = "idle"
          => /\ soq'.last_push = soq.data[SOQ_at(soq.p_read_position)]
             /\ soq'.evicted = Append(soq.evicted, soq'.last_push)

\* C34: with producer and consumer running concurrently the values pop
\* returns appear in push order, and a value push returns as evicted was the
\* oldest value of the queue when it was evicted
C34_PopOrderAndOldestEvicted ==
    []SOQ_LeavesInPushOrder /\ [][SOQ_EvictsOldest]_vars

\* the consumer had to repeat its compare_exchange because of an eviction,
\* got a value, and pushes evicted before and after that pop
C34_Witness ==
    /\ Len(soq.popped) >= 1
    /\ Len(soq.evicted) >= 2
    /\ \E i \in 1..Len(soq.evicted) : soq.evicted[i] > soq.popped[1]
    /\ \E i \in 1..Len(soq.evicted) : soq.evicted[i] < soq.popped[1]
    /\ soq.retries > 0

\* len(), lines 391-394: write_position - read_position of two cursors read
\* at the same moment
SOQ_len == soq.write_position - soq.read_position

\* C35: in every reachable state, the states in the middle of an overflowing
\* push included, write_position - read_position is at most the capacity, so
\* that len() and is_full() never see more than C stored elements
C35_NeverMoreThanCapacity == SOQ_len <= QueueCapacity

\* the extra cell bounds what the cursors span
SOQ_AtMostOneMoreThanCapacity == SOQ_len <= QueueCapacity + 1

\* between the two cursor updates of one overflowing push the consumer has
\* popped more values than the capacity
SOQ_PoppedMoreThanCapacity ==
    /\ soq.calls = QueueCapacity + 1
    /\ soq.ppc = "compare_exchange"
    /\ Len(soq.popped) = QueueCapacity + 1

\* how far a call has come: the place of its position in the code
Q_Rank(pc) ==
    CASE pc = "idle" -> 0
      [] pc = "load_read_position" -> 1
      [] pc = "load_write_position" -> 1
      [] pc = "write" -> 2
      [] pc = "read" -> 2
      [] pc = "store" -> 3
      [] pc = "compare_exchange" -> 4
      [] pc = "read_evicted" -> 5

\* a step of a call leads to a later place of the code or ends the call
Q_Advances(pc, next) == next # pc => (next = "idle" \/ Q_Rank(next) > Q_Rank(pc))

\* push and pop of the plain queue and push of the safely-overflowing queue
\* run straight through; pop of the safely-overflowing queue goes back only
\* from a compare_exchange that found the read cursor moved, and takes the
\* moved cursor; during a pop only the compare_exchange of an overflowing
\* push moves the read cursor
Q_StepsAreBounded ==
    /\ Q_Advances(iq.ppc, iq'.ppc)
    /\ Q_Advances(iq.cpc, iq'.cpc)
    /\ Q_Advances(soq.ppc, soq'.ppc)
    /\ \/ Q_Advances(soq.cpc, soq'.cpc)
       \/ /\ soq.cpc = "compare_exchange" /\ soq'.cpc = "read"
          /\ soq.read_position > soq.c_read_position
          /\ soq'.c_read_position = soq.read_position
    /\ (soq.cpc # "idle" /\ soq'.cpc = soq.cpc
          /\ soq'.read_position # soq.read_position)
       => /\ soq.ppc = "compare_exchange" /\ soq'.ppc = "read_evicted"
          /\ soq'.read_position = soq.read_position + 1

\* C36: push and pop of the plain queue and push of the safely-overflowing
\* queue end after a bounded number of the caller's steps; pop of the
\* safely-overflowing queue repeats its compare_exchange only after an
\* eviction of the producer moved the read cursor, and ends when the
\* producer completes finitely many overflowing pushes
C36_CallsTerminate ==
    /\ [][Q_StepsAreBounded]_vars
    /\ (iq.ppc # "idle") ~> (iq.ppc = "idle")
    /\ (iq.cpc # "idle") ~> (iq.cpc = "idle")
    /\ (soq.ppc # "idle") ~> (soq.ppc = "idle")
    /\ (soq.cpc # "idle") ~> (soq.cpc = "idle")

\* a pop that had to repeat its compare_exchange twice has returned
C36_Witness ==
    /\ soq.retries >= 2
    /\ soq.cpc = "idle"
    /\ Len(soq.popped) > 0

\* a file of this name exists or is being created: a thread holds it or is
\* initializing it
FS_FileExists(f, name) ==
    \E t \in FS_Threads : f.tpc[t] # "idle" /\ f.entries[f.tid[t]] = name

\* a failed insert leaves the free indices and every reference counter as
\* they were
FS_FailedInsertLeavesSet ==
    (fs'.returned.call = "insert" /\ fs'.returned.result # "Ok")
        => /\ fs'.ids = fs.ids
           /\ fs'.counter = fs.counter

\* an insert fails only for want of a free entry or because a file of the
\* name exists or is being created
FS_InsertFailsForCause ==
    (fs'.returned.call = "insert" /\ fs'.returned.result # "Ok")
        => \/ fs.ids = <<>> /\ fs'.returned.result = "FileLimitExceeded"
           \/ FS_FileExists(fs, fs'.returned.name)

\* C37: an insert that fails, for want of a free entry or because a file of
\* the name exists or is being created, leaves the set as it found it: the
\* index it acquired is free again and no reference counter stays
\* incremented; once the existing file is gone an insert of the name succeeds
C37_FailedInsertLeavesNoTrace ==
    [][FS_FailedInsertLeavesSet /\ FS_InsertFailsForCause]_vars

\* the second half of C37 alone
FS_InsertsFailForCause == [][FS_InsertFailsForCause]_vars

\* the threads whose set_value returned true
LS_Winners == {t \in LS_Threads : ls.set_value[t] = "true"}

\* at most one set_value returns true, and one does when every thread has
\* called set_value and every call has returned; the value is written and
\* finalized as soon as a call has returned true
LS_OneSetValueWins ==
    /\ Cardinality(LS_Winners) <= 1
    /\ (\A t \in LS_Threads : ls.set_value[t] \in {"true", "false"})
          => Cardinality(LS_Winners) = 1
    /\ \A t \in LS_Threads : ls.set_value[t] = "false" => ls.is_initialized
    /\ \A t \in LS_Winners : ls.is_finalized /\ ls.data = t

\* a get that returns yields the value of the set_value that returned true;
\* a get panics if and only if it finds that no set_value has begun
LS_GetYieldsTheValue ==
    /\ (ls'.returned.call = "get" /\ ls'.returned.result = "value")
          => /\ ls'.returned.value \in LS_Winners
             /\ ls'.returned.value \in LS_Threads
    /\ \A t \in LS_Threads :
          (ls.pc[t] = "load_initialized" /\ ls'.pc[t] # "load_initialized")
             => (ls'.returned.result = "panic"
                    <=> \A u \in LS_Threads : ls.set_value[u] = "none")

\* C39: of the set_value calls of a lazy singleton exactly one returns true,
\* the others false; a get that returns yields the value of that call, never
\* an unset or half-written one, and a get that finds no set_value begun
\* panics
C39_OneValueForEveryGet ==
    []LS_OneSetValueWins /\ [][LS_GetYieldsTheValue]_vars

\* a get of another thread has returned the value of the set_value that
\* won, and the set_value calls of all other threads have returned false
C39_Witness ==
    /\ ls.returned.call = "get"
    /\ ls.returned.result = "value"
    /\ \E t \in LS_Threads :
          /\ ls.returned.value = t
          /\ ls.returned.thread # t
          /\ \A u \in LS_Threads \ {t} : ls.set_value[u] = "false"

\* the memory that remains after the start was aligned holds the layout
OC_Fits(a, layout) ==
    PA_align(a.start, layout.align) - a.start + layout.size <= a.size

\* the checks of allocate pass if and only if no chunk is outstanding and
\* the layout fits
OC_AllocateIffFits ==
    \A t \in OC_Threads :
        (/\ oc.pc[t] = "idle"
         /\ \/ oc'.pc[t] = "store"
            \/ oc'.returned.thread = t /\ oc'.returned.call = "allocate")
        => (oc'.pc[t] = "store"
               <=> oc.allocated_chunk_start = 0 /\ OC_Fits(oc, oc'.layout[t]))

\* at most one chunk is outstanding, and allocated_chunk_start tells it
OC_AtMostOneChunk ==
    /\ Cardinality({t \in OC_Threads : oc.held[t] # 0}) <= 1
    /\ \A t \in OC_Threads : oc.held[t] # 0 => oc.allocated_chunk_start = oc.held[t]

\* deallocate releases the chunk for its pointer and refuses every other
OC_DeallocateOnlyTheChunk ==
    oc'.returned.call = "deallocate" =>
        IF oc.allocated_chunk_start # 0 /\ oc'.returned.address = oc.allocated_chunk_start
        THEN oc'.returned.result = "Ok" /\ oc'.allocated_chunk_start = 0
        ELSE /\ oc'.returned.result = "ProvidedPointerNotContainedInAllocator"
             /\ oc'.allocated_chunk_start = oc.allocated_chunk_start
             /\ oc'.held = oc.held

\* C40: a one-chunk allocator hands out at most one chunk: allocate succeeds
\* if and only if no chunk is outstanding and the memory that remains after
\* aligning the start holds at least layout.size(); after that every
\* allocate returns OutOfMemory until deallocate is called with the chunk's
\* pointer; deallocate with another pointer returns
\* ProvidedPointerNotContainedInAllocator and keeps the chunk
C40_OneChunkAtATime ==
    /\ []OC_AtMostOneChunk
    /\ [][OC_AllocateIffFits]_vars
    /\ [][OC_DeallocateOnlyTheChunk]_vars

\* the parts of C40, each alone
OC_AlwaysAtMostOneChunk == []OC_AtMostOneChunk

OC_AlwaysAllocateIffFits == [][OC_AllocateIffFits]_vars

OC_AlwaysDeallocateOnlyTheChunk == [][OC_DeallocateOnlyTheChunk]_vars

====
